---- MODULE Spec2Model ----
(***************************************************************************)
(* Model of the ESI include engine of esi-html-rewriter.                   *)
(*                                                                         *)
(* Two implementations of the engine live in the repository and both are   *)
(* modelled; the variable impl selects one per behaviour:                  *)
(*   "parseEsi"  processEsiResponse / parseEsi / EsiIncludeHandler         *)
(*               (src/src/index.ts)                                        *)
(*   "Esi"       class Esi with parseResponse / fetch                      *)
(*               (src/unnamed/part_006)                                    *)
(*                                                                         *)
(* Strings that the code parses (header values, URL strings) are           *)
(* sequences of tokens, so that split, trim, case folding, regular         *)
(* expression tests and prefix tests are computed rather than assumed.     *)
(* A document body is a sequence of items: literal text or an include      *)
(* directive.  An absent header and the empty string are both <<>>.        *)
(***************************************************************************)
EXTENDS Integers, Sequences, FiniteSets, TLC

\* Largest configured maxDepth explored (maxDepth ranges over 0..MaxMaxDepth).
MaxMaxDepth == 3

(***************************************************************************)
(* Tokens, header names and header values                                  *)
(***************************************************************************)

\* String.prototype.toLowerCase on the tokens the model uses.
toLowerCase(t) ==
  CASE t = "TEXT/HTML" -> "text/html"
    [] t = "CONTENT" -> "content"
    [] t = "\"esi/1.0\"" -> "\"esi/1.0\""
    [] t = "\"ESI/1.0\"" -> "\"esi/1.0\""
    [] t = "\"ESI/1.1\"" -> "\"esi/1.1\""
    [] t = "Cache-Control" -> "cache-control"
    [] t = "Last-Modified" -> "last-modified"
    [] t = "ETag" -> "etag"
    [] t = "Content-Type" -> "content-type"
    [] t = "Content-Length" -> "content-length"
    [] t = "Surrogate-Control" -> "surrogate-control"
    [] t = "Custom-Surrogate-Control" -> "custom-surrogate-control"
    [] t = "X-Custom-Header" -> "x-custom-header"
    [] t = "Surrogate-Capability" -> "surrogate-capability"
    [] t = "CF-Connecting-IP" -> "cf-connecting-ip"
    [] t = "Authorization" -> "authorization"
    [] t = "User-Agent" -> "user-agent"
    [] t = "\"SSI/1.0\"" -> "\"ssi/1.0\""
    [] OTHER -> t

\* The keys a Headers object stores (names are kept in lower case).
ResponseHeaderKeys ==
  {"cache-control", "last-modified", "etag", "content-type", "content-length",
   "surrogate-control", "custom-surrogate-control", "x-custom-header"}

RequestHeaderKeys ==
  {"surrogate-capability", "cf-connecting-ip", "authorization", "user-agent"}

\* Headers.get: the stored value, <<>> when the header is absent.
HeadersGet(headers, name) == headers[toLowerCase(name)]

\* Headers.set
HeadersSet(headers, name, value) == [headers EXCEPT ![toLowerCase(name)] = value]

\* Headers.delete
HeadersDelete(headers, name) == [headers EXCEPT ![toLowerCase(name)] = <<>>]

\* new Headers(): no header present.
EmptyRequestHeaders == [k \in RequestHeaderKeys |-> <<>>]

EmptyResponseHeaders == [k \in ResponseHeaderKeys |-> <<>>]

IsSpace(t) == t = " "

\* Index of the first element of s at or after i that is not white space.
RECURSIVE SkipSpaces(_, _)
SkipSpaces(s, i) ==
  IF i <= Len(s) /\ IsSpace(s[i]) THEN SkipSpaces(s, i + 1) ELSE i

\* /content\s*=\s*"ESI\/1\.0"/i tried at position i of the value.
EsiControlMatchesAt(s, i) ==
  /\ toLowerCase(s[i]) = "content"
  /\ LET j == SkipSpaces(s, i + 1) IN
       /\ j <= Len(s)
       /\ s[j] = "="
       /\ LET k == SkipSpaces(s, j + 1) IN
            /\ k <= Len(s)
            /\ toLowerCase(s[k]) = "\"esi/1.0\""

\* Mutant: any value of the header counts.
hasEsiSurrogateControlAnyValue(response, headerName) ==
  HeadersGet(response.headers, headerName) # <<>>

\* hasEsiSurrogateControl(response, headerName)
hasEsiSurrogateControl(response, headerName) ==
  LET surrogateControl == HeadersGet(response.headers, headerName) IN
    IF surrogateControl = <<>> THEN FALSE
    ELSE \E i \in 1..Len(surrogateControl) : EsiControlMatchesAt(surrogateControl, i)

\* contentType.split(";")[0]
RECURSIVE BeforeSemicolon(_)
BeforeSemicolon(s) ==
  IF s = <<>> \/ Head(s) = ";" THEN <<>>
  ELSE <<Head(s)>> \o BeforeSemicolon(Tail(s))

RECURSIVE TrimLeft(_)
TrimLeft(s) == IF s # <<>> /\ IsSpace(Head(s)) THEN TrimLeft(Tail(s)) ELSE s

RECURSIVE TrimRight(_)
TrimRight(s) ==
  IF s # <<>> /\ IsSpace(s[Len(s)]) THEN TrimRight(SubSeq(s, 1, Len(s) - 1)) ELSE s

\* String.prototype.trim
Trim(s) == TrimRight(TrimLeft(s))

LowerAll(s) == [i \in 1..Len(s) |-> toLowerCase(s[i])]

\* Mutant: the whole header value is compared, parameters included.
hasAllowedContentTypeExact(response, allowedContentTypes) ==
  LET contentType == HeadersGet(response.headers, "Content-Type") IN
    IF contentType = <<>> THEN FALSE
    ELSE \E i \in 1..Len(allowedContentTypes) :
            LowerAll(allowedContentTypes[i]) = LowerAll(contentType)

\* hasAllowedContentType(response, allowedContentTypes)
hasAllowedContentType(response, allowedContentTypes) ==
  LET contentType == HeadersGet(response.headers, "Content-Type") IN
    IF contentType = <<>> THEN FALSE
    ELSE LET mimeType == LowerAll(Trim(BeforeSemicolon(contentType))) IN
           \E i \in 1..Len(allowedContentTypes) :
              LowerAll(allowedContentTypes[i]) = mimeType

(***************************************************************************)
(* URLs and the allow-list                                                 *)
(***************************************************************************)

OriginA == "https://example.com"
OriginB == "https://untrusted.com"

\* An absolute URL: origin and path segments.
Url(origin, path) == [origin |-> origin, path |-> path]

\* The value thrown by new URL(...) on a malformed input.
InvalidUrl == [origin |-> "", path |-> <<"invalid">>]

\* The src attribute of a directive.
AbsSrc(origin, path) == [kind |-> "abs", origin |-> origin, path |-> path]
RelSrc(path) == [kind |-> "rel", origin |-> "", path |-> path]
MissingSrc == [kind |-> "none", origin |-> "", path |-> <<>>]
MalformedSrc == [kind |-> "bad", origin |-> "", path |-> <<>>]

\* new URL(src, base): InvalidUrl stands for the TypeError it throws.
NewUrl(src, base) ==
  CASE src.kind = "abs" -> Url(src.origin, src.path)
    [] src.kind = "rel" -> Url(base.origin, src.path)
    [] OTHER -> InvalidUrl

\* url.toString() / request.url as a string: the origin, then the segments.
UrlString(url) == <<url.origin>> \o url.path

\* A structured URLPattern: origin "*" matches every origin; the pathname
\* is a segment prefix followed by a wildcard.
UrlPattern(origin, prefix) == [kind |-> "pattern", origin |-> origin, prefix |-> prefix]

\* A string pattern that URLPattern cannot compile; tokens may hold "*".
LiteralPattern(tokens) == [kind |-> "literal", origin |-> "", prefix |-> tokens]

IsPrefix(p, s) == Len(p) <= Len(s) /\ SubSeq(s, 1, Len(p)) = p

\* pattern.replace("*", ""): removes the first "*" only.
RECURSIVE RemoveFirstStar(_)
RemoveFirstStar(s) ==
  IF s = <<>> THEN <<>>
  ELSE IF Head(s) = "*" THEN Tail(s)
  ELSE <<Head(s)>> \o RemoveFirstStar(Tail(s))

\* pattern.test(urlObj), with the prefix fallback of string patterns.
PatternTest(pattern, url) ==
  IF pattern.kind = "pattern"
  THEN /\ pattern.origin \in {"*", url.origin}
       /\ IsPrefix(pattern.prefix, url.path)
  ELSE IsPrefix(RemoveFirstStar(pattern.prefix), UrlString(url))

\* matchesUrlPattern(url, patterns): some pattern matches; a malformed URL
\* never matches.
matchesUrlPattern(url, patterns) ==
  IF url = InvalidUrl THEN FALSE
  ELSE \E i \in 1..Len(patterns) : PatternTest(patterns[i], url)

(***************************************************************************)
(* Documents, requests, responses and the origin server                    *)
(***************************************************************************)

Text(v) == [t |-> "text", v |-> v, src |-> MissingSrc]
\* An include element as the origin writes it: <esi:include src="..." />.
Include(src) == [t |-> "include", v |-> "esi:include", src |-> src]
\* A comment whose text holds the markup of an include element.
Comment(src) == [t |-> "comment", v |-> "esi:include", src |-> src]
\* What a custom error handler substitutes for a failed directive.
ErrorMarkup == [t |-> "text", v |-> "<!-- error -->", src |-> MissingSrc]

IsInclude(item) == item.t = "include"

\* shimEsiTags(html, tag): every <esi:include ...> in the text, wherever it
\* stands, is rewritten to the tag.
shimEsiTags(html, tag) ==
  [n \in 1..Len(html) |->
     IF html[n].v = "esi:include" THEN [html[n] EXCEPT !.v = tag] ELSE html[n]]

\* new Request(url, { headers })
NewRequest(url, headers) == [url |-> url, headers |-> headers]

EsiControlValue == <<"content", "=", "\"ESI/1.0\"">>
HtmlContentType == <<"text/html">>

\* Headers of an origin response; esi says whether the origin delegates
\* ESI processing (it then sends the control directive).
OriginHeaders(contentType, esi) ==
  [k \in ResponseHeaderKeys |->
     CASE k = "content-type" -> contentType
       [] k \in {"surrogate-control", "custom-surrogate-control"} ->
            IF esi THEN EsiControlValue ELSE <<>>
       [] k = "etag" -> <<"\"abc123\"">>
       [] OTHER -> <<>>]

\* new Response(body, { status, headers }) as received for a request to url.
NewResponse(id, url, status, statusText, headers, body) ==
  [id |-> id, url |-> url, status |-> status, statusText |-> statusText,
   headers |-> headers, hasBody |-> TRUE, body |-> body]

\* Mutant: the upper end of the range of success statuses is not tested.
OkAnyStatus(response) == response.status >= 200

\* response.ok
Ok(response) == response.status >= 200 /\ response.status <= 299

NetworkError == [id |-> -1, url |-> InvalidUrl, status |-> 0, statusText |-> "",
                 headers |-> EmptyResponseHeaders, hasBody |-> FALSE, body |-> <<>>]

\* The reason phrase the origin sends with a status.
StatusText(status) ==
  CASE status = 200 -> "OK"
    [] status = 404 -> "Not Found"
    [] OTHER -> ""

\* The fetch collaborator: what the origin answers for a URL.  The mapping
\* is fixed, so a URL always yields the same outcome; NetworkError stands
\* for a rejected fetch.
OriginFetch(url) ==
  LET page(status, contentType, esi, body) ==
        NewResponse(2, url, status, StatusText(status),
                    OriginHeaders(contentType, esi), body)
  IN
  CASE url = Url(OriginA, <<"1">>) ->
         page(200, HtmlContentType, TRUE, <<Text("L1"), Include(RelSrc(<<"2">>))>>)
    [] url = Url(OriginA, <<"2">>) ->
         page(200, <<"TEXT/HTML", ";", " ", "charset=utf-8">>, TRUE,
              <<Text("L2"), Include(AbsSrc(OriginA, <<"3">>))>>)
    [] url = Url(OriginA, <<"3">>) ->
         page(200, HtmlContentType, TRUE, <<Text("L3")>>)
    [] url = Url(OriginA, <<"loop">>) ->
         page(200, HtmlContentType, TRUE, <<Text("LP"), Include(RelSrc(<<"loop">>))>>)
    [] url = Url(OriginA, <<"api", "h">>) ->
         page(200, <<"text/plain">>, FALSE, <<Text("H")>>)
    [] url = Url(OriginA, <<"f">>) ->
         page(200, <<"text/plain">>, FALSE, <<Text("F")>>)
    [] url = Url(OriginA, <<"raw">>) ->
         page(200, HtmlContentType, FALSE,
              <<Text("R"), Include(AbsSrc(OriginA, <<"api", "h">>))>>)
    [] url = Url(OriginA, <<"404">>) ->
         page(404, HtmlContentType, TRUE,
              <<Text("Not found"), Include(AbsSrc(OriginA, <<"api", "h">>))>>)
    [] url = Url(OriginA, <<"n">>) ->
         page(200, HtmlContentType, TRUE,
              <<Text("N"), Include(RelSrc(<<"err">>)), Include(AbsSrc(OriginB, <<"x">>))>>)
    [] url = Url(OriginA, <<"err">>) -> NetworkError
    [] url = Url(OriginB, <<"x">>) ->
         page(200, <<"text/plain">>, FALSE, <<Text("X")>>)
    [] url = Url(OriginB, <<"frag">>) ->
         page(200, HtmlContentType, TRUE, <<Text("Y"), Include(RelSrc(<<"x">>))>>)
    [] OTHER -> page(404, <<"text/plain">>, FALSE, <<Text("Not found")>>)

\* The root documents explored.
RootBodies ==
  { <<Include(AbsSrc(OriginA, <<"1">>))>>,
    <<Include(RelSrc(<<"api", "h">>)), Text("M"), Include(AbsSrc(OriginA, <<"f">>))>>,
    <<Include(AbsSrc(OriginA, <<"404">>)), Text("M"), Include(AbsSrc(OriginB, <<"x">>))>>,
    <<Include(AbsSrc(OriginA, <<"err">>)), Include(AbsSrc(OriginA, <<"raw">>))>>,
    <<Include(RelSrc(<<"loop">>))>>,
    <<Include(MissingSrc), Text("M"), Include(MalformedSrc)>>,
    <<Include(RelSrc(<<"n">>)), Text("M")>>,
    <<Include(AbsSrc(OriginB, <<"frag">>))>>,
    <<Comment(AbsSrc(OriginA, <<"f">>)), Text("M")>>,
    <<Text("M")>> }

\* The body every gate variation is tried on.
SiblingBody ==
  <<Include(RelSrc(<<"api", "h">>)), Text("M"), Include(AbsSrc(OriginA, <<"f">>))>>

RootUrl == Url(OriginA, <<"page">>)

(***************************************************************************)
(* Options                                                                 *)
(***************************************************************************)

\* An optional option: set says whether the caller passed it.
Unset == [set |-> FALSE, list |-> <<>>]
Given(list) == [set |-> TRUE, list |-> list]

AllowedUrlPatternsChoices ==
  { Unset,
    Given(<<>>),
    Given(<<UrlPattern(OriginA, <<>>)>>),
    Given(<<UrlPattern("*", <<"api">>), UrlPattern(OriginB, <<>>)>>),
    Given(<<LiteralPattern(<<OriginA, "f", "*">>)>>) }

\* How the configured error handler answers: "default" is the built-in
\* handler, "remove" and "replace" are custom handlers, "throws" is a custom
\* handler that throws.
OnErrorChoices == {"default", "remove", "replace", "throws"}

SurrogateControlValues ==
  { <<>>,
    EsiControlValue,
    <<"no-store", ",", " ", "CONTENT", " ", "=", " ", "\"esi/1.0\"">>,
    <<"content", "=", "\"ESI/1.1\"">>,
    <<"content", "=", "ESI/1.0">>,
    <<"\"ESI/1.0\"">> }

ContentTypeValues ==
  { <<>>, HtmlContentType, <<"TEXT/HTML", ";", " ", "charset=utf-8">>, <<"text/plain">>,
    <<"text/html", " ", ";", "charset=utf-8">>, <<"application/xml">>,
    <<"text/html", "+", "x">> }

ContentTypesChoices ==
  { <<HtmlContentType>>, <<<<"application/xml">>, <<"TEXT/HTML">>>> }

DelegationOff == [kind |-> "boolean", on |-> FALSE, ips |-> <<>>]
DelegationOn == [kind |-> "boolean", on |-> TRUE, ips |-> <<>>]
DelegationIps(ips) == [kind |-> "array", on |-> TRUE, ips |-> ips]

CapabilityValues ==
  { <<>>, <<"varnish=", "\"ESI/1.0\"">>, <<"varnish=", "\"SSI/1.0\"">> }

\* The CF-Connecting-IP values of the incoming request, and the addresses
\* an address list of surrogateDelegation names.
ConnectingIpValues == { <<>>, <<"192.168.1.1">>, <<"192.168.1.2">> }
DelegationAddresses == <<<<"192.168.1.1">>, <<"10.0.0.1">>>>

DefaultOptions(i, d) ==
  [impl |-> i, maxDepth |-> d, allowedUrlPatterns |-> Unset, onError |-> "default",
   contentTypes |-> <<HtmlContentType>>, surrogateDelegation |-> DelegationOff,
   surrogateControlHeader |-> "Surrogate-Control", shim |-> FALSE]

\* Options is what the caller passes; the two implementations read the
\* fields they know.  The resolution options vary over every root body with
\* an eligible root response; the gate options vary on one body.
ResolutionOptions ==
  { [DefaultOptions(i, d) EXCEPT !.allowedUrlPatterns = a, !.onError = e,
                                !.shim = m] :
      i \in {"parseEsi", "Esi"}, d \in 0..MaxMaxDepth,
      a \in AllowedUrlPatternsChoices, e \in OnErrorChoices, m \in BOOLEAN }

GateOptions ==
  { [DefaultOptions(i, MaxMaxDepth) EXCEPT !.contentTypes = c,
        !.surrogateDelegation = g, !.surrogateControlHeader = h] :
      i \in {"parseEsi", "Esi"}, c \in ContentTypesChoices,
      g \in {DelegationOff, DelegationOn, DelegationIps(DelegationAddresses)},
      h \in {"Surrogate-Control", "Custom-Surrogate-Control"} }

\* The Esi class with delegation enabled, tried on nested documents.
DelegationOptions ==
  { [DefaultOptions("Esi", d) EXCEPT !.surrogateDelegation = g] :
      d \in 0..MaxMaxDepth,
      g \in {DelegationOn, DelegationIps(DelegationAddresses)} }

\* Only the Esi class has the delegation, header-name and shim options,
\* and it takes URLPattern objects only.
ValidOptions(o) ==
  /\ o.impl = "parseEsi" =>
       /\ o.surrogateDelegation = DelegationOff
       /\ ~o.shim
       /\ o.surrogateControlHeader = "Surrogate-Control"
  /\ o.impl = "Esi" =>
       \A i \in 1..Len(o.allowedUrlPatterns.list) :
          o.allowedUrlPatterns.list[i].kind = "pattern"

\* The headers of the root response under test.
RootHeaders(control, controlName, contentType, cached) ==
  [k \in ResponseHeaderKeys |->
     CASE k = toLowerCase(controlName) -> control
       [] k = "content-type" -> contentType
       [] k = "cache-control" -> IF cached THEN <<"public,", " ", "max-age=3600">> ELSE <<>>
       [] k = "etag" -> IF cached THEN <<"\"abc123\"">> ELSE <<>>
       [] k = "last-modified" -> IF cached THEN <<"yesterday">> ELSE <<>>
       [] k = "content-length" -> IF cached THEN <<"42">> ELSE <<>>
       [] k = "x-custom-header" -> <<"custom-value">>
       [] OTHER -> <<>>]

RootResponse(headers, hasBody, body) ==
  [id |-> 0, url |-> RootUrl, status |-> 200, statusText |-> "OK",
   headers |-> headers, hasBody |-> hasBody, body |-> IF hasBody THEN body ELSE <<>>]

EligibleRootResponses ==
  { RootResponse(RootHeaders(EsiControlValue, "Surrogate-Control", HtmlContentType, TRUE),
                 TRUE, b) : b \in RootBodies }

GateRootResponses ==
  { RootResponse(RootHeaders(s, n, c, k), hb, SiblingBody) :
      s \in SurrogateControlValues,
      n \in {"Surrogate-Control", "Custom-Surrogate-Control"},
      c \in ContentTypeValues, k \in BOOLEAN, hb \in BOOLEAN }

\* The eligible root responses whose includes answer with documents that
\* are eligible themselves: the chain /1 -> /2 -> /3 and the fragment of
\* another origin.
NestedRootResponses ==
  { RootResponse(RootHeaders(EsiControlValue, "Surrogate-Control", HtmlContentType, TRUE),
                 TRUE, b) :
      b \in { <<Include(AbsSrc(OriginA, <<"1">>))>>,
              <<Include(AbsSrc(OriginB, <<"frag">>))>> } }

RootRequest(capability) ==
  NewRequest(RootUrl,
    [k \in RequestHeaderKeys |->
       CASE k = "authorization" -> <<"Bearer">>
         [] k = "user-agent" -> <<"MyApp/1.0">>
         [] k = "surrogate-capability" -> capability
         [] OTHER -> <<>>])

\* The incoming request as it reaches the worker: the capability a
\* downstream surrogate advertised and the address of the connecting peer.
ConnectingRequest(capability, ip) ==
  LET request == RootRequest(capability) IN
    NewRequest(request.url, HeadersSet(request.headers, "CF-Connecting-IP", ip))

NoRequest == NewRequest(InvalidUrl, EmptyRequestHeaders)

(***************************************************************************)
(* State                                                                   *)
(***************************************************************************)

VARIABLES
  options,       \* the options the engine was constructed with
  response,      \* the response handed to the engine
  context,       \* the request chain handed with it (root request last)
  pc,            \* "start", "passthrough", "streaming", "finalized", "failed"
  result,        \* the response the engine returned
  frames,        \* path -> the document transform running at that path
  directives,    \* <<path, index>> -> the handler run of that directive
  completed,     \* the directives whose fetch settled, in the order of settling
  requestWithCapability  \* the request Esi.fetch handed to the fetch
                         \* collaborator for the caller (NoRequest: none)

inputs == <<options, response, context>>
vars == <<options, response, context, pc, result, frames, directives, completed,
          requestWithCapability>>

NoResponse == [id |-> -2, url |-> InvalidUrl, status |-> 0, statusText |-> "",
               headers |-> EmptyResponseHeaders, hasBody |-> FALSE, body |-> <<>>]

Init ==
  /\ \/ /\ options \in {o \in ResolutionOptions : ValidOptions(o)}
        /\ response \in EligibleRootResponses
        /\ context = <<RootRequest(<<>>)>>
     \/ /\ options \in {o \in GateOptions : ValidOptions(o)}
        /\ response \in GateRootResponses
        /\ \E cap \in CapabilityValues, ip \in ConnectingIpValues :
              context = <<ConnectingRequest(cap, ip)>>
     \/ /\ options \in {o \in DelegationOptions : ValidOptions(o)}
        /\ response \in NestedRootResponses
        /\ \E cap \in CapabilityValues, ip \in ConnectingIpValues :
              context = <<ConnectingRequest(cap, ip)>>
  /\ pc = "start"
  /\ result = NoResponse
  /\ frames = <<>>
  /\ directives = <<>>
  /\ completed = <<>>
  /\ requestWithCapability = NoRequest

(***************************************************************************)
(* Helpers of the engine                                                   *)
(***************************************************************************)

\* /ESI\/1\.0/i tested on a header value.
AdvertisesEsi(value) ==
  \E i \in 1..Len(value) : toLowerCase(value[i]) = "\"esi/1.0\""

Includes(list, value) == \E i \in 1..Len(list) : list[i] = value

\* Mutant: the presence of the capability header is tested, not the token
\* it advertises.
shouldDelegateToSurrogateAnyCapability(request, surrogateDelegation) ==
  IF ~surrogateDelegation.on THEN FALSE
  ELSE LET surrogateCapability == HeadersGet(request.headers, "Surrogate-Capability") IN
    IF surrogateCapability = <<>> THEN FALSE
    ELSE IF surrogateDelegation.kind = "array"
      THEN LET cfConnectingIp == HeadersGet(request.headers, "CF-Connecting-IP") IN
             cfConnectingIp # <<>> /\ Includes(surrogateDelegation.ips, cfConnectingIp)
      ELSE TRUE

\* Mutant: a list of addresses is treated like true, the connecting
\* address is not looked at.
shouldDelegateToSurrogateAnyAddress(request, surrogateDelegation) ==
  IF ~surrogateDelegation.on THEN FALSE
  ELSE LET surrogateCapability == HeadersGet(request.headers, "Surrogate-Capability") IN
    IF surrogateCapability = <<>> \/ ~AdvertisesEsi(surrogateCapability) THEN FALSE
    ELSE TRUE

\* shouldDelegateToSurrogate(request, surrogateDelegation)
shouldDelegateToSurrogate(request, surrogateDelegation) ==
  IF ~surrogateDelegation.on THEN FALSE
  ELSE LET surrogateCapability == HeadersGet(request.headers, "Surrogate-Capability") IN
    IF surrogateCapability = <<>> \/ ~AdvertisesEsi(surrogateCapability) THEN FALSE
    ELSE IF surrogateDelegation.kind = "array"
      THEN LET cfConnectingIp == HeadersGet(request.headers, "CF-Connecting-IP") IN
             cfConnectingIp # <<>> /\ Includes(surrogateDelegation.ips, cfConnectingIp)
      ELSE TRUE

\* Mutant: the header is set to the engine's entry whatever it held.
addSurrogateCapabilityOverwrites(request) ==
  NewRequest(request.url,
    HeadersSet(request.headers, "Surrogate-Capability",
               <<"cloudflare-workers=", "\"ESI/1.0\"">>))

\* Mutant: the new request starts from empty headers instead of a copy of
\* the headers of the request.
addSurrogateCapabilityFreshHeaders(request) ==
  LET existing == HeadersGet(request.headers, "Surrogate-Capability")
      capability == <<"cloudflare-workers=", "\"ESI/1.0\"">>
  IN NewRequest(request.url,
       IF existing # <<>>
       THEN HeadersSet(EmptyRequestHeaders, "Surrogate-Capability",
                       existing \o <<",", " ">> \o capability)
       ELSE HeadersSet(EmptyRequestHeaders, "Surrogate-Capability", capability))

\* addSurrogateCapability(request): a new request, the argument is untouched.
addSurrogateCapability(request) ==
  LET existing == HeadersGet(request.headers, "Surrogate-Capability")
      capability == <<"cloudflare-workers=", "\"ESI/1.0\"">>
  IN NewRequest(request.url,
       IF existing # <<>>
       THEN HeadersSet(request.headers, "Surrogate-Capability",
                       existing \o <<",", " ">> \o capability)
       ELSE HeadersSet(request.headers, "Surrogate-Capability", capability))

\* Esi.constructor: this.allowedUrlPatterns
EsiAllowedUrlPatterns ==
  IF options.allowedUrlPatterns.set THEN options.allowedUrlPatterns.list
  ELSE <<UrlPattern("*", <<>>)>>

\* The guard of EsiIncludeHandler.element around matchesUrlPattern:
\* the list is consulted only when it is given and not empty.
HandlerUrlAllowed(url) ==
  IF options.allowedUrlPatterns.set /\ Len(options.allowedUrlPatterns.list) > 0
  THEN matchesUrlPattern(url, options.allowedUrlPatterns.list)
  ELSE TRUE

\* The headers parseEsi gives the response it builds.
ParseEsiHeaders ==
  [EmptyResponseHeaders EXCEPT
     !["content-type"] = <<"text/html", ";", " ", "charset=utf-8">>]

\* Mutant: the control header is deleted under its default name, whatever
\* name is configured.
RewriteHeadersDefaultName(headers) ==
  LET h1 == HeadersSet(headers, "Cache-Control", <<"private,", " ", "max-age=0">>)
      h2 == HeadersDelete(h1, "Last-Modified")
      h3 == HeadersDelete(h2, "ETag")
      h4 == HeadersDelete(h3, "content-length")
  IN HeadersDelete(h4, "Surrogate-Control")

\* Mutant: the rewritten headers start from fresh headers instead of the
\* headers of the original response.
RewriteHeadersFresh(headers) ==
  HeadersSet(ParseEsiHeaders, "Cache-Control", <<"private,", " ", "max-age=0">>)

\* The header rewriting at the end of Esi.parseResponse.
RewriteHeaders(headers) ==
  LET h1 == HeadersSet(headers, "Cache-Control", <<"private,", " ", "max-age=0">>)
      h2 == HeadersDelete(h1, "Last-Modified")
      h3 == HeadersDelete(h2, "ETag")
      h4 == HeadersDelete(h3, "content-length")
  IN HeadersDelete(h4, options.surrogateControlHeader)

\* Mutant: the response is inspected before the context is.
ParseResponseDecisionInspectsFirst(resp, ctx) ==
  IF \/ ~resp.hasBody
     \/ ~hasEsiSurrogateControl(resp, options.surrogateControlHeader)
     \/ ~hasAllowedContentType(resp, options.contentTypes)
  THEN "return"
  ELSE IF ctx = <<>> THEN "throw"
  ELSE LET parentRequest == ctx[Len(ctx)]
           nestedDepth == Len(ctx) - 1
       IN IF nestedDepth > options.maxDepth THEN "return"
          ELSE IF shouldDelegateToSurrogate(parentRequest, options.surrogateDelegation)
          THEN "return"
          ELSE "transform"

\* Mutant: the nesting depth is not compared with maxDepth.
ParseResponseDecisionAnyDepth(resp, ctx) ==
  IF ctx = <<>> THEN "throw"
  ELSE LET parentRequest == ctx[Len(ctx)]
       IN IF \/ ~resp.hasBody
             \/ shouldDelegateToSurrogate(parentRequest, options.surrogateDelegation)
             \/ ~hasEsiSurrogateControl(resp, options.surrogateControlHeader)
             \/ ~hasAllowedContentType(resp, options.contentTypes)
          THEN "return"
          ELSE "transform"

\* Mutant: the content type of the response is not tested.
ParseResponseDecisionAnyContentType(resp, ctx) ==
  IF ctx = <<>> THEN "throw"
  ELSE LET parentRequest == ctx[Len(ctx)]
           nestedDepth == Len(ctx) - 1
       IN IF nestedDepth > options.maxDepth THEN "return"
          ELSE IF \/ ~resp.hasBody
                  \/ shouldDelegateToSurrogate(parentRequest, options.surrogateDelegation)
                  \/ ~hasEsiSurrogateControl(resp, options.surrogateControlHeader)
               THEN "return"
               ELSE "transform"

\* What Esi.parseResponse does with a response before any rewriting:
\* "throw", "return" (the response itself) or "transform".
ParseResponseDecision(resp, ctx) ==
  IF ctx = <<>> THEN "throw"
  ELSE LET parentRequest == ctx[Len(ctx)]
           nestedDepth == Len(ctx) - 1
       IN IF nestedDepth > options.maxDepth THEN "return"
          ELSE IF \/ ~resp.hasBody
                  \/ shouldDelegateToSurrogate(parentRequest, options.surrogateDelegation)
                  \/ ~hasEsiSurrogateControl(resp, options.surrogateControlHeader)
                  \/ ~hasAllowedContentType(resp, options.contentTypes)
               THEN "return"
               ELSE "transform"

\* The gate of processEsiResponse.
ProcessEsiResponseDecision(resp) ==
  IF ~resp.hasBody THEN "return"
  ELSE IF ~hasEsiSurrogateControl(resp, "Surrogate-Control") THEN "return"
  ELSE IF ~hasAllowedContentType(resp, options.contentTypes) THEN "return"
  ELSE "transform"

\* shouldRecurse in EsiIncludeHandler.element
shouldRecurse(resp) ==
  /\ hasEsiSurrogateControl(resp, "Surrogate-Control")
  /\ hasAllowedContentType(resp, options.contentTypes)

(***************************************************************************)
(* Frames (one document transform each) and directive handler runs         *)
(***************************************************************************)

\* The selector the element handler is registered on.
Selector ==
  IF options.impl = "Esi" /\ options.shim THEN "esi-include" ELSE "esi:include"

\* The element matches the selector.
Selected(item) == IsInclude(item) /\ item.v = Selector

\* responseToParse: the body the transform of the Esi class reads.
ResponseToParse(body) ==
  IF options.shim THEN shimEsiTags(body, "esi-include") ELSE body

\* A transform set up by HTMLRewriter.transform: base is the URL relative
\* sources are resolved against, depth the nesting depth of the document
\* (nestedDepth of Esi.parseResponse, currentDepth of parseEsi), chain the
\* request context (Esi only).
Frame(base, depth, chain, items) ==
  [base |-> base, depth |-> depth, context |-> chain, items |-> items,
   status |-> "streaming"]

\* A handler run waiting for its fetch: request is the include request,
\* sent the request handed to the fetch collaborator, chain the context
\* onEsiElement hands to Esi.fetch with the request.
Fetching(request, sent) ==
  [st |-> "fetching", request |-> request, sent |-> sent, fetches |-> 1,
   chain |-> <<>>, errors |-> <<>>, received |-> <<>>, action |-> "none",
   out |-> <<>>]

\* A handler run that ended: errors are the errors the error handler was
\* called with (received holds, for an OnErrorHandler of parseEsi, the
\* request and the response of each call), action what happened to the element ("replace", "remove",
\* or "threw" when the handler run rejected), out the markup put in place
\* of the element.
Ended(d, errors, action, out) ==
  [d EXCEPT !.st = "done", !.errors = errors, !.action = action, !.out = out]

NotFetched ==
  [st |-> "done", request |-> NoRequest, sent |-> NoRequest, fetches |-> 0,
   chain |-> <<>>, errors |-> <<>>, received |-> <<>>, action |-> "none",
   out |-> <<>>]

\* Mutant: the fetched text is dropped, the element removed.
ReplacedWithoutContent(d, content) == Ended(d, d.errors, "remove", <<>>)

\* element.replace(content, { html: true })
Replaced(d, content) == Ended(d, d.errors, "replace", content)

\* Mutant: a fetch that failed on the network is issued a second time
\* before the error is handled.
EsiOnErrorRetries(d, error) ==
  IF error = "FetchFailedNetwork" /\ d.fetches = 1
  THEN [d EXCEPT !.fetches = 2]
  ELSE CASE options.onError = "throws" -> Ended(d, <<error>>, "threw", <<>>)
         [] options.onError = "replace" -> Ended(d, <<error>>, "replace", <<ErrorMarkup>>)
         [] OTHER -> Ended(d, <<error>>, "remove", <<>>)

\* Mutant: no catch clause, the error leaves the element handler.
EsiOnErrorUncaught(d, error) == Ended(d, <<error>>, "threw", <<>>)

\* The catch clause around onEsiElement: this.onError(error, element).
EsiOnError(d, error) ==
  CASE options.onError = "throws" -> Ended(d, <<error>>, "threw", <<>>)
    [] options.onError = "replace" -> Ended(d, <<error>>, "replace", <<ErrorMarkup>>)
    [] OTHER -> Ended(d, <<error>>, "remove", <<>>)

\* The string the configured OnErrorHandler of parseEsi returns; the empty
\* string is <<>> (the default handler returns it).
OnErrorReturn == IF options.onError = "replace" THEN <<ErrorMarkup>> ELSE <<>>

\* The arguments (request, response) of one call of the OnErrorHandler.
HandlerCall(request, resp) == [request |-> request, response |-> resp]

\* Mutant: the string the handler returned is dropped, the element removed.
ReplaceOrRemoveAlwaysRemoves(d, replacement) ==
  Ended(d, d.errors, "remove", <<>>)

\* if (replacement) element.replace(replacement, { html: true })
\* else element.remove()
ReplaceOrRemove(d, replacement) ==
  IF replacement # <<>> THEN Ended(d, d.errors, "replace", replacement)
  ELSE Ended(d, d.errors, "remove", <<>>)

\* Mutant: the response is not handed on to the handler.
handleErrorWithoutResponse(d, error, resp, inTry) ==
  LET first == HandlerCall(d.request, NoResponse)
      called == [d EXCEPT !.errors = <<error>>, !.received = <<first>>]
  IN IF options.onError = "throws"
     THEN IF inTry
          THEN Ended([called EXCEPT !.received = <<first, first>>],
                     <<error, "HandlerThrew">>, "threw", <<>>)
          ELSE Ended(called, <<error>>, "threw", <<>>)
     ELSE ReplaceOrRemove(called, OnErrorReturn)

\* EsiIncludeHandler: replacement = this.handleError(error, request,
\* response), then replace or remove; resp is NoResponse when no response
\* is passed.  inTry says whether the call stands inside the try block: an
\* exception thrown by the handler is then caught by the catch clause,
\* which calls the handler a second time, without response.
handleError(d, error, resp, inTry) ==
  LET first == HandlerCall(d.request, resp)
      called == [d EXCEPT !.errors = <<error>>, !.received = <<first>>]
  IN IF options.onError = "throws"
     THEN IF inTry
          THEN Ended([called EXCEPT
                        !.received = <<first, HandlerCall(d.request, NoResponse)>>],
                     <<error, "HandlerThrew">>, "threw", <<>>)
          ELSE Ended(called, <<error>>, "threw", <<>>)
     ELSE ReplaceOrRemove(called, OnErrorReturn)

\* A handler run that rejected before any error handler was called.
Rejected(d) == Ended(d, <<>>, "threw", <<>>)

\* Mutant: the capability is added to the include request itself, which
\* goes on the chain and hands its headers down, and again by Esi.fetch.
onEsiElementAdvertises(frame, item) ==
  LET parentRequest == frame.context[Len(frame.context)]
      esiUrl == NewUrl(item.src, parentRequest.url)
      isSameOrigin == parentRequest.url.origin = esiUrl.origin
      headers == IF isSameOrigin THEN parentRequest.headers ELSE EmptyRequestHeaders
      esiRequest == addSurrogateCapability(NewRequest(esiUrl, headers))
  IN IF item.src.kind = "none"
     THEN EsiOnError(NotFetched, "MissingSource")
     ELSE IF esiUrl = InvalidUrl
     THEN EsiOnError(NotFetched, "InvalidUrl")
     ELSE IF ~matchesUrlPattern(esiRequest.url, EsiAllowedUrlPatterns)
     THEN EsiOnError([NotFetched EXCEPT !.request = esiRequest], "UrlNotAllowed")
     ELSE [Fetching(esiRequest, addSurrogateCapability(esiRequest))
             EXCEPT !.chain = frame.context]

\* Mutant: the src is resolved against the URL of the root request.
onEsiElementRootBase(frame, item) ==
  LET parentRequest == frame.context[Len(frame.context)]
      esiUrl == NewUrl(item.src, frame.context[1].url)
      isSameOrigin == parentRequest.url.origin = esiUrl.origin
      headers == IF isSameOrigin THEN parentRequest.headers ELSE EmptyRequestHeaders
      esiRequest == NewRequest(esiUrl, headers)
  IN IF item.src.kind = "none"
     THEN EsiOnError(NotFetched, "MissingSource")
     ELSE IF esiUrl = InvalidUrl
     THEN EsiOnError(NotFetched, "InvalidUrl")
     ELSE IF ~matchesUrlPattern(esiRequest.url, EsiAllowedUrlPatterns)
     THEN EsiOnError([NotFetched EXCEPT !.request = esiRequest], "UrlNotAllowed")
     ELSE [Fetching(esiRequest, addSurrogateCapability(esiRequest))
             EXCEPT !.chain = frame.context]

\* Mutant: the include request takes the headers of the parent request
\* whatever its origin.
onEsiElementAlwaysInherits(frame, item) ==
  LET parentRequest == frame.context[Len(frame.context)]
      esiUrl == NewUrl(item.src, parentRequest.url)
      esiRequest == NewRequest(esiUrl, parentRequest.headers)
  IN IF item.src.kind = "none"
     THEN EsiOnError(NotFetched, "MissingSource")
     ELSE IF esiUrl = InvalidUrl
     THEN EsiOnError(NotFetched, "InvalidUrl")
     ELSE IF ~matchesUrlPattern(esiRequest.url, EsiAllowedUrlPatterns)
     THEN EsiOnError([NotFetched EXCEPT !.request = esiRequest], "UrlNotAllowed")
     ELSE [Fetching(esiRequest, addSurrogateCapability(esiRequest))
             EXCEPT !.chain = frame.context]

\* Mutant: the include URL is not tested against the allow-list.
onEsiElementUnchecked(frame, item) ==
  LET parentRequest == frame.context[Len(frame.context)]
      esiUrl == NewUrl(item.src, parentRequest.url)
      isSameOrigin == parentRequest.url.origin = esiUrl.origin
      headers == IF isSameOrigin THEN parentRequest.headers ELSE EmptyRequestHeaders
      esiRequest == NewRequest(esiUrl, headers)
  IN IF item.src.kind = "none"
     THEN EsiOnError(NotFetched, "MissingSource")
     ELSE IF esiUrl = InvalidUrl
     THEN EsiOnError(NotFetched, "InvalidUrl")
     ELSE [Fetching(esiRequest, addSurrogateCapability(esiRequest))
             EXCEPT !.chain = frame.context]

\* onEsiElement of Esi.parseResponse up to its first await.
onEsiElement(frame, item) ==
  LET parentRequest == frame.context[Len(frame.context)]
      esiUrl == NewUrl(item.src, parentRequest.url)
      isSameOrigin == parentRequest.url.origin = esiUrl.origin
      headers == IF isSameOrigin THEN parentRequest.headers ELSE EmptyRequestHeaders
      esiRequest == NewRequest(esiUrl, headers)
  IN IF item.src.kind = "none"
     THEN EsiOnError(NotFetched, "MissingSource")
     ELSE IF esiUrl = InvalidUrl
     THEN EsiOnError(NotFetched, "InvalidUrl")
     ELSE IF ~matchesUrlPattern(esiRequest.url, EsiAllowedUrlPatterns)
     THEN EsiOnError([NotFetched EXCEPT !.request = esiRequest], "UrlNotAllowed")
     ELSE [Fetching(esiRequest, addSurrogateCapability(esiRequest))
             EXCEPT !.chain = frame.context]

\* EsiIncludeHandler.element up to its first await.
element(frame, item) ==
  LET url == NewUrl(item.src, frame.base)
      request == NewRequest(url, EmptyRequestHeaders)
      d == [NotFetched EXCEPT !.request = request]
  IN IF item.src.kind = "none"
     THEN Ended(NotFetched, <<>>, "remove", <<>>)
     ELSE IF frame.depth >= options.maxDepth
     THEN IF url = InvalidUrl THEN Rejected(NotFetched)
          ELSE handleError(d, "RecursionDepthExceeded", NoResponse, FALSE)
     ELSE IF url = InvalidUrl
     THEN Rejected(NotFetched)
     ELSE IF ~HandlerUrlAllowed(url)
     THEN handleError(d, "UrlNotAllowed", NoResponse, TRUE)
     ELSE Fetching(request, request)

\* The streaming rewriter calls the handlers of a document in document
\* order; a handler that is suspended in a fetch does not keep the
\* handlers of later elements from starting.
HandlerMayStart(p, i) ==
  /\ p \in DOMAIN frames
  /\ frames[p].status = "streaming"
  /\ i \in 1..Len(frames[p].items)
  /\ Selected(frames[p].items[i])
  /\ <<p, i>> \notin DOMAIN directives
  /\ \A j \in 1..(i - 1) :
       Selected(frames[p].items[j]) => <<p, j>> \in DOMAIN directives

\* Every directive of the document at p has been resolved.
FrameDone(p) ==
  /\ p \in DOMAIN frames
  /\ frames[p].status = "streaming"
  /\ \A i \in 1..Len(frames[p].items) :
       Selected(frames[p].items[i]) =>
         /\ <<p, i>> \in DOMAIN directives
         /\ directives[<<p, i>>].st = "done"

\* The text of the document at p: literal text in place, every directive
\* replaced by what its handler put there.
RECURSIVE Assemble(_, _)
Assemble(p, i) ==
  IF i > Len(frames[p].items) THEN <<>>
  ELSE (IF Selected(frames[p].items[i])
        THEN (IF <<p, i>> \in DOMAIN directives /\ directives[<<p, i>>].st = "done"
              THEN directives[<<p, i>>].out ELSE <<>>)
        ELSE <<frames[p].items[i]>>) \o Assemble(p, i + 1)

FrameText(p) == Assemble(p, 1)

(***************************************************************************)
(* Actions                                                                 *)
(***************************************************************************)

\* Esi.fetch(request) called for the incoming request: the capability is
\* added to a copy and the copy handed to the fetch collaborator; the
\* response it answers with then goes through parseResponse with the
\* request itself as context.  A caller that has the response already
\* calls parseResponse directly.
Fetch ==
  /\ pc = "start"
  /\ options.impl = "Esi"
  /\ context # <<>>
  /\ requestWithCapability = NoRequest
  /\ requestWithCapability' = addSurrogateCapability(context[Len(context)])
  /\ UNCHANGED <<inputs, pc, result, frames, directives, completed>>

\* Mutant: the headers are rewritten before the gate, also on a response
\* that is returned unprocessed.
ParseResponseRewritesFirst ==
  /\ pc = "start"
  /\ options.impl = "Esi"
  /\ LET decision == ParseResponseDecision(response, context) IN
       CASE decision = "throw" ->
              /\ pc' = "failed"
              /\ UNCHANGED <<result, frames>>
         [] decision = "return" ->
              /\ pc' = "passthrough"
              /\ result' = [response EXCEPT !.headers = RewriteHeaders(response.headers)]
              /\ UNCHANGED frames
         [] OTHER ->
              /\ pc' = "streaming"
              /\ result' = [response EXCEPT !.id = 1,
                                            !.headers = RewriteHeaders(response.headers)]
              /\ frames' = (<<>> :> Frame(context[Len(context)].url, Len(context) - 1,
                                          context, ResponseToParse(response.body)))
  /\ UNCHANGED <<inputs, directives, completed, requestWithCapability>>

\* Esi.parseResponse(response, context) on the root response, up to its
\* return: the gate, the transform set up on the clone, the header rewrite.
ParseResponse ==
  /\ pc = "start"
  /\ options.impl = "Esi"
  /\ LET decision == ParseResponseDecision(response, context) IN
       CASE decision = "throw" ->
              /\ pc' = "failed"
              /\ UNCHANGED <<result, frames>>
         [] decision = "return" ->
              /\ pc' = "passthrough"
              /\ result' = response
              /\ UNCHANGED frames
         [] OTHER ->
              /\ pc' = "streaming"
              /\ result' = [response EXCEPT !.id = 1,
                                            !.headers = RewriteHeaders(response.headers)]
              /\ frames' = (<<>> :> Frame(context[Len(context)].url, Len(context) - 1,
                                          context, ResponseToParse(response.body)))
  /\ UNCHANGED <<inputs, directives, completed, requestWithCapability>>

\* processEsiResponse(response, options): the gate, then parseEsi on the
\* body with the response URL as base URL and currentDepth 0.
ProcessEsiResponse ==
  /\ pc = "start"
  /\ options.impl = "parseEsi"
  /\ IF ProcessEsiResponseDecision(response) = "return"
     THEN /\ pc' = "passthrough"
          /\ result' = response
          /\ UNCHANGED frames
     ELSE /\ pc' = "streaming"
          /\ result' = [response EXCEPT !.id = 1, !.headers = ParseEsiHeaders]
          /\ frames' = (<<>> :> Frame(response.url, 0, <<>>, response.body))
  /\ UNCHANGED <<inputs, directives, completed, requestWithCapability>>

\* The rewriter calls the element handler of directive i of the document at
\* p; the handler runs up to its first await or to its end.
ElementHandler(p, i) ==
  /\ pc = "streaming"
  /\ HandlerMayStart(p, i)
  /\ LET d == IF options.impl = "Esi"
              THEN onEsiElement(frames[p], frames[p].items[i])
              ELSE element(frames[p], frames[p].items[i])
     IN /\ directives' = (<<p, i>> :> d) @@ directives
        /\ frames' = IF d.action = "threw"
                     THEN [frames EXCEPT ![p].status = "aborted"]
                     ELSE frames
  /\ UNCHANGED <<inputs, pc, result, completed, requestWithCapability>>

\* Mutant: Esi.fetch puts the request it sent, with the capability of the
\* engine, on the chain of the recursive step.
EsiFetchSettlesSentOnChain(p, i, d) ==
  LET esiResponse == OriginFetch(d.sent.url)
      chain == Append(d.chain, d.sent)
      decision == ParseResponseDecision(esiResponse, chain)
      child == Frame(d.request.url, Len(chain) - 1, chain,
                     ResponseToParse(esiResponse.body))
      d2 == IF esiResponse = NetworkError THEN EsiOnError(d, "FetchFailedNetwork")
            ELSE IF ~Ok(esiResponse) THEN EsiOnError(d, "FetchFailedHttp")
            ELSE IF decision = "transform" THEN [d EXCEPT !.st = "reading"]
            ELSE Replaced(d, esiResponse.body)
      withChild == IF esiResponse # NetworkError /\ decision = "transform"
                   THEN (Append(p, i) :> child) @@ frames
                   ELSE frames
  IN /\ directives' = [directives EXCEPT ![<<p, i>>] = d2]
     /\ frames' = IF d2.action = "threw"
                  THEN [withChild EXCEPT ![p].status = "aborted"]
                  ELSE withChild

\* Mutant: Esi.fetch pushes the request onto the chain it was handed
\* instead of building a new one.
EsiFetchSettlesPushes(p, i, d) ==
  LET esiResponse == OriginFetch(d.sent.url)
      chain == Append(d.chain, d.request)
      decision == ParseResponseDecision(esiResponse, chain)
      child == Frame(d.request.url, Len(chain) - 1, chain,
                     ResponseToParse(esiResponse.body))
      d2 == IF esiResponse = NetworkError THEN EsiOnError(d, "FetchFailedNetwork")
            ELSE IF ~Ok(esiResponse) THEN EsiOnError(d, "FetchFailedHttp")
            ELSE IF decision = "transform" THEN [d EXCEPT !.st = "reading"]
            ELSE Replaced(d, esiResponse.body)
      pushed == [frames EXCEPT ![p].context = chain]
      withChild == IF esiResponse # NetworkError /\ decision = "transform"
                   THEN (Append(p, i) :> child) @@ pushed
                   ELSE pushed
  IN /\ directives' = [directives EXCEPT ![<<p, i>>] = d2]
     /\ frames' = IF d2.action = "threw"
                  THEN [withChild EXCEPT ![p].status = "aborted"]
                  ELSE withChild

\* Esi.fetch settles inside onEsiElement: the response goes through
\* parseResponse with the extended context, then the ok test, then the
\* element is replaced or the body of a transformed response is awaited.
EsiFetchSettles(p, i, d) ==
  LET esiResponse == OriginFetch(d.sent.url)
      chain == Append(d.chain, d.request)
      decision == ParseResponseDecision(esiResponse, chain)
      child == Frame(d.request.url, Len(chain) - 1, chain,
                     ResponseToParse(esiResponse.body))
      d2 == IF esiResponse = NetworkError THEN EsiOnError(d, "FetchFailedNetwork")
            ELSE IF ~Ok(esiResponse) THEN EsiOnError(d, "FetchFailedHttp")
            ELSE IF decision = "transform" THEN [d EXCEPT !.st = "reading"]
            ELSE Replaced(d, esiResponse.body)
      withChild == IF esiResponse # NetworkError /\ decision = "transform"
                   THEN (Append(p, i) :> child) @@ frames
                   ELSE frames
  IN /\ directives' = [directives EXCEPT ![<<p, i>>] = d2]
     /\ frames' = IF d2.action = "threw"
                  THEN [withChild EXCEPT ![p].status = "aborted"]
                  ELSE withChild

\* Mutant: the handler object, which is shared by all elements, keeps the
\* request in a field, so a handler run that resumes sees the request of
\* the directive that started last.
HandlerFetchSettlesSharedRequest(p, i, d) ==
  LET last == CHOOSE j \in 1..Len(frames[p].items) :
                /\ <<p, j>> \in DOMAIN directives
                /\ \A n \in (j + 1)..Len(frames[p].items) : <<p, n>> \notin DOMAIN directives
      resp == OriginFetch(directives[<<p, last>>].sent.url)
      recurse == resp # NetworkError /\ Ok(resp) /\ shouldRecurse(resp)
      child == Frame(d.request.url, frames[p].depth + 1, <<>>, resp.body)
      d2 == IF resp = NetworkError
            THEN handleError(d, "FetchFailedNetwork", NoResponse, FALSE)
            ELSE IF ~Ok(resp) THEN handleError(d, "FetchFailedHttp", resp, TRUE)
            ELSE IF recurse THEN [d EXCEPT !.st = "reading"]
            ELSE Replaced(d, resp.body)
      withChild == IF recurse THEN (Append(p, i) :> child) @@ frames ELSE frames
  IN /\ directives' = [directives EXCEPT ![<<p, i>>] = d2]
     /\ frames' = IF d2.action = "threw"
                  THEN [withChild EXCEPT ![p].status = "aborted"]
                  ELSE withChild

\* The custom fetch settles inside EsiIncludeHandler.element: the ok test,
\* then the recursion decision, then the element is replaced or the body of
\* the recursive parseEsi is awaited.
HandlerFetchSettles(p, i, d) ==
  LET resp == OriginFetch(d.sent.url)
      recurse == resp # NetworkError /\ Ok(resp) /\ shouldRecurse(resp)
      child == Frame(d.request.url, frames[p].depth + 1, <<>>, resp.body)
      d2 == IF resp = NetworkError
            THEN handleError(d, "FetchFailedNetwork", NoResponse, FALSE)
            ELSE IF ~Ok(resp) THEN handleError(d, "FetchFailedHttp", resp, TRUE)
            ELSE IF recurse THEN [d EXCEPT !.st = "reading"]
            ELSE Replaced(d, resp.body)
      withChild == IF recurse THEN (Append(p, i) :> child) @@ frames ELSE frames
  IN /\ directives' = [directives EXCEPT ![<<p, i>>] = d2]
     /\ frames' = IF d2.action = "threw"
                  THEN [withChild EXCEPT ![p].status = "aborted"]
                  ELSE withChild

\* The fetch of directive i of the document at p returns or throws.
FetchSettles(p, i) ==
  /\ pc = "streaming"
  /\ <<p, i>> \in DOMAIN directives
  /\ directives[<<p, i>>].st = "fetching"
  /\ IF options.impl = "Esi"
     THEN EsiFetchSettles(p, i, directives[<<p, i>>])
     ELSE HandlerFetchSettles(p, i, directives[<<p, i>>])
  /\ completed' = Append(completed, <<p, i>>)
  /\ UNCHANGED <<inputs, pc, result, requestWithCapability>>

\* await esiResponse.text() / await processedResponse.text() returns the
\* assembled text of the nested document, or rejects when that transform
\* failed; the element is then replaced, or the error handled.
BodyRead(p, i) ==
  /\ pc = "streaming"
  /\ <<p, i>> \in DOMAIN directives
  /\ directives[<<p, i>>].st = "reading"
  /\ LET c == Append(p, i)
         d == directives[<<p, i>>]
         d2 == IF FrameDone(c) THEN Replaced(d, FrameText(c))
               ELSE IF options.impl = "Esi" THEN EsiOnError(d, "StreamError")
               ELSE handleError(d, "StreamError", NoResponse, FALSE)
     IN /\ FrameDone(c) \/ frames[c].status = "aborted"
        /\ directives' = [directives EXCEPT ![<<p, i>>] = d2]
        /\ frames' = IF d2.action = "threw"
                     THEN [frames EXCEPT ![p].status = "aborted"]
                     ELSE frames
  /\ UNCHANGED <<inputs, pc, result, completed, requestWithCapability>>

\* The caller has read the returned body to its end.
Finalize ==
  /\ pc = "streaming"
  /\ FrameDone(<<>>)
  /\ pc' = "finalized"
  /\ UNCHANGED <<inputs, result, frames, directives, completed, requestWithCapability>>

\* The returned body stream fails: a handler of the root document rejected.
Fail ==
  /\ pc = "streaming"
  /\ frames[<<>>].status = "aborted"
  /\ pc' = "failed"
  /\ UNCHANGED <<inputs, result, frames, directives, completed, requestWithCapability>>

Next ==
  \/ Fetch
  \/ ParseResponse
  \/ ProcessEsiResponse
  \/ \E p \in DOMAIN frames, i \in 1..3 : ElementHandler(p, i)
  \/ \E p \in DOMAIN frames, i \in 1..3 : FetchSettles(p, i)
  \/ \E p \in DOMAIN frames, i \in 1..3 : BodyRead(p, i)
  \/ Finalize
  \/ Fail

Spec == Init /\ [][Next]_vars

\* Esi.parseResponse(response) called without its second argument: the
\* context is the default, the empty array.
InitWithoutContext ==
  /\ options \in {o \in GateOptions : ValidOptions(o) /\ o.impl = "Esi"}
  /\ response \in GateRootResponses
  /\ context = <<>>
  /\ pc = "start"
  /\ result = NoResponse
  /\ frames = <<>>
  /\ directives = <<>>
  /\ completed = <<>>
  /\ requestWithCapability = NoRequest

\* Every call of Spec, and the calls of parseResponse without context.
SpecAnyContext == (Init \/ InitWithoutContext) /\ [][Next]_vars

(***************************************************************************)
(* Properties                                                              *)
(***************************************************************************)

Started == DOMAIN directives

\* The src of a started directive, and whether it resolves to a URL.
SrcOf(k) == frames[k[1]].items[k[2]].src
Resolvable(k) == SrcOf(k).kind \in {"abs", "rel"}

RECURSIVE SumFetches(_)
SumFetches(keys) ==
  IF keys = {} THEN 0
  ELSE LET k == CHOOSE x \in keys : TRUE IN
         directives[k].fetches + SumFetches(keys \ {k})

\* The number of times the fetch collaborator was invoked.
FetchCount == SumFetches(Started)

Min(a, b) == IF a < b THEN a ELSE b

ChainBody == <<Include(AbsSrc(OriginA, <<"1">>))>>

\* C1: a directive met in a document whose depth is already >= maxDepth is
\* never fetched, and once its handler has run the error handler has seen
\* the recursion-depth-exceeded error exactly once.
C1_DepthCheckPrecedesFetch ==
  \A k \in Started :
    (Resolvable(k) /\ frames[k[1]].depth >= options.maxDepth) =>
      /\ directives[k].fetches = 0
      /\ directives[k].st = "done" =>
           directives[k].errors = <<"RecursionDepthExceeded">>

\* C2: for the chain /1 -> /2 -> /3 with every URL allowed, a finished
\* assembly has issued exactly min(3, maxDepth) fetches; with maxDepth = 2
\* the levels 1 and 2 are in the output and the third directive went
\* through the depth-exceeded error path.
C2_ChainFetchCount ==
  (/\ pc = "finalized"
   /\ response.body = ChainBody
   /\ ~options.allowedUrlPatterns.set) =>
     /\ FetchCount = Min(3, options.maxDepth)
     /\ options.maxDepth = 2 =>
          /\ \E n \in 1..Len(FrameText(<<>>)) : FrameText(<<>>)[n] = Text("L1")
          /\ \E n \in 1..Len(FrameText(<<>>)) : FrameText(<<>>)[n] = Text("L2")
          /\ <<<<1, 2>>, 2>> \in Started
          /\ directives[<<<<1, 2>>, 2>>].errors = <<"RecursionDepthExceeded">>
          /\ directives[<<<<1, 2>>, 2>>].fetches = 0

\* The URL a started directive resolves to.
ResolvedUrl(k) == NewUrl(SrcOf(k), frames[k[1]].base)

ConfiguredPatterns == options.allowedUrlPatterns.list

NoPatternMatches(url) ==
  \A n \in 1..Len(ConfiguredPatterns) : ~PatternTest(ConfiguredPatterns[n], url)

\* The handler run of directive k ended in a ReplacementAction.
Resolved(k) ==
  /\ k \in Started
  /\ directives[k].st = "done"
  /\ directives[k].action \in {"replace", "remove"}

\* C3: in the Esi class, with an error handler that does not throw, no
\* failure of an include leaves its handler: no transform is ever aborted,
\* the assembly never fails, every handler run that ended replaced or
\* removed its element, and a finished assembly has resolved every
\* directive of the root document.
C3_ErrorIsolation ==
  (options.impl = "Esi" /\ options.onError # "throws") =>
    /\ \A p \in DOMAIN frames : frames[p].status # "aborted"
    /\ pc # "failed"
    /\ \A k \in Started : directives[k].st = "done" => Resolved(k)
    /\ pc = "finalized" =>
         \A i \in 1..Len(response.body) :
            IsInclude(response.body[i]) => Resolved(<<<<>>, i>>)

\* C3 witness: a finished assembly in which a nested include failed on the
\* network, its sibling in the fragment was resolved after it and the
\* ancestor directive was replaced by the assembled fragment.
C3_Witness ==
  /\ options.impl = "Esi"
  /\ options.onError = "default"
  /\ pc = "finalized"
  /\ <<<<1>>, 2>> \in Started
  /\ directives[<<<<1>>, 2>>].errors = <<"FetchFailedNetwork">>
  /\ <<<<1>>, 3>> \in Started
  /\ directives[<<<<1>>, 3>>].action = "replace"
  /\ directives[<<<<>>, 1>>].out = <<Text("N"), Text("X")>>

\* C4: with an error handler that does not throw, every handler run that
\* has ended produced a ReplacementAction: its element was replaced or
\* removed.
C4_EveryResolutionEndsInReplacement ==
  options.onError # "throws" =>
    \A k \in Started : directives[k].st = "done" => Resolved(k)

\* C5: with a non-empty allow-list, a directive whose resolved URL matches
\* no pattern is never fetched, at any depth, and the error handler is
\* called with the URL-not-allowed error (in parseEsi the depth test comes
\* first, so this holds there for directives below the depth limit).
C5_DisallowedUrlNeverFetched ==
  \A k \in Started :
    (/\ Resolvable(k)
     /\ options.allowedUrlPatterns.set
     /\ Len(ConfiguredPatterns) > 0
     /\ NoPatternMatches(ResolvedUrl(k))) =>
       /\ directives[k].fetches = 0
       /\ directives[k].st = "done"
       /\ options.impl = "Esi" => directives[k].errors = <<"UrlNotAllowed">>
       /\ (options.impl = "parseEsi" /\ frames[k[1]].depth < options.maxDepth) =>
            Head(directives[k].errors) = "UrlNotAllowed"

\* C5 witness: a nested directive of the Esi class whose URL is on another
\* origin than the only allowed one has been rejected.
C5_Witness ==
  /\ options.impl = "Esi"
  /\ ConfiguredPatterns = <<UrlPattern(OriginA, <<>>)>>
  /\ <<<<1>>, 3>> \in Started
  /\ ResolvedUrl(<<<<1>>, 3>>) = Url(OriginB, <<"x">>)
  /\ directives[<<<<1>>, 3>>].errors = <<"UrlNotAllowed">>
  /\ directives[<<<<1>>, 3>>].fetches = 0

\* Whether the handler run of directive k reaches the allow-list test.
ReachesPolicy(k) ==
  /\ Resolvable(k)
  /\ options.impl = "parseEsi" => frames[k[1]].depth < options.maxDepth

\* C6: a URL is allowed iff it matches at least one pattern of the list,
\* and every URL is allowed when the list is empty or unset: a directive
\* that reaches the allow-list test is fetched iff its URL is allowed.
C6_AllowedIffSomePatternMatches ==
  \A k \in Started :
    ReachesPolicy(k) =>
      (directives[k].fetches = 1 <=>
         \/ ~options.allowedUrlPatterns.set
         \/ Len(ConfiguredPatterns) = 0
         \/ ~NoPatternMatches(ResolvedUrl(k)))

\* The name under which the control directive is looked up.
ControlHeaderName ==
  IF options.impl = "Esi" THEN options.surrogateControlHeader ELSE "Surrogate-Control"

\* C7: a response without body, without the control directive or with an
\* ineligible content type is returned as the identical response object,
\* headers and body untouched, and nothing is fetched.
C7_PassThroughIdentity ==
  (/\ pc # "start"
   /\ \/ ~response.hasBody
      \/ ~hasEsiSurrogateControl(response, ControlHeaderName)
      \/ ~hasAllowedContentType(response, options.contentTypes)) =>
     /\ pc = "passthrough"
     /\ result = response
     /\ frames = <<>>
     /\ FetchCount = 0

\* C7 witness: a response with body and control directive but with an
\* ineligible content type has been passed through.
C7_Witness ==
  /\ pc = "passthrough"
  /\ options.impl = "Esi"
  /\ response.hasBody
  /\ hasEsiSurrogateControl(response, ControlHeaderName)
  /\ HeadersGet(response.headers, "Content-Type") = <<"text/plain">>
  /\ result.id = response.id

\* C8: a response processed by the Esi class is returned with
\* Cache-Control "private, max-age=0" and without ETag, Last-Modified,
\* Content-Length and the control header under its configured name.
C8_ProcessedHeaders ==
  (options.impl = "Esi" /\ pc \in {"streaming", "finalized"}) =>
    /\ HeadersGet(result.headers, "Cache-Control") = <<"private,", " ", "max-age=0">>
    /\ HeadersGet(result.headers, "ETag") = <<>>
    /\ HeadersGet(result.headers, "Last-Modified") = <<>>
    /\ HeadersGet(result.headers, "Content-Length") = <<>>
    /\ HeadersGet(result.headers, options.surrogateControlHeader) = <<>>

\* C8 witness: a processed response that carried validators, a length, a
\* public Cache-Control and the control directive under a custom name.
C8_Witness ==
  /\ options.impl = "Esi"
  /\ pc = "finalized"
  /\ options.surrogateControlHeader = "Custom-Surrogate-Control"
  /\ HeadersGet(response.headers, "Custom-Surrogate-Control") # <<>>
  /\ HeadersGet(response.headers, "ETag") # <<>>
  /\ HeadersGet(response.headers, "Content-Length") # <<>>
  /\ HeadersGet(response.headers, "Cache-Control") = <<"public,", " ", "max-age=3600">>

\* The headers the rewriting of a processed response touches.
RewrittenKeys ==
  {"cache-control", "etag", "last-modified", "content-length",
   toLowerCase(options.surrogateControlHeader)}

\* C9: every header of the original response that the rewriting does not
\* name keeps its value on the response processed by the Esi class.
C9_OtherHeadersKept ==
  (options.impl = "Esi" /\ pc \in {"streaming", "finalized"}) =>
    \A key \in ResponseHeaderKeys \ RewrittenKeys :
       result.headers[key] = response.headers[key]

\* C9 witness: a processed response whose original carried a content type
\* with parameters and a custom header.
C9_Witness ==
  /\ options.impl = "Esi"
  /\ pc = "finalized"
  /\ HeadersGet(response.headers, "X-Custom-Header") = <<"custom-value">>
  /\ HeadersGet(response.headers, "Content-Type") = <<"TEXT/HTML", ";", " ", "charset=utf-8">>
  /\ HeadersGet(result.headers, "X-Custom-Header") = <<"custom-value">>

BothSiblingsIncluded ==
  /\ pc = "finalized"
  /\ response.body = SiblingBody
  /\ directives[<<<<>>, 1>>].fetches = 1
  /\ directives[<<<<>>, 1>>].errors = <<>>
  /\ directives[<<<<>>, 3>>].fetches = 1
  /\ directives[<<<<>>, 3>>].errors = <<>>

\* C10: for the document <include H> M <include F>, when both includes are
\* fetched the output is H, M, F, whatever the order in which the two
\* fetches completed.
C10_DocumentOrder ==
  BothSiblingsIncluded => FrameText(<<>>) = <<Text("H"), Text("M"), Text("F")>>

\* C10 witness: the fetch of F completed before the fetch of H.
C10_Witness ==
  /\ BothSiblingsIncluded
  /\ completed = <<<<<<>>, 3>>, <<<<>>, 1>>>>

\* The response the origin answers the fetch of directive k with.
FetchedResponse(k) == OriginFetch(directives[k].sent.url)

\* The fetch of directive k was issued and failed: the collaborator threw
\* or answered with a status outside 200..299.
FetchFailed(k) ==
  /\ directives[k].fetches = 1
  /\ \/ FetchedResponse(k) = NetworkError
     \/ FetchedResponse(k).status < 200
     \/ FetchedResponse(k).status > 299

Contains(seq, item) == \E n \in 1..Len(seq) : seq[n] = item

\* C11: with the default error policy a directive whose fetch failed is
\* removed: nothing stands in its place, and the finished output holds no
\* item of the body of a failed response of a root directive.
C11_DefaultPolicyRemoves ==
  options.onError = "default" =>
    /\ \A k \in Started :
         (directives[k].st = "done" /\ FetchFailed(k)) =>
            /\ directives[k].action = "remove"
            /\ directives[k].out = <<>>
    /\ pc = "finalized" =>
         \A i \in 1..Len(response.body) :
            (IsInclude(response.body[i]) /\ FetchFailed(<<<<>>, i>>)) =>
               \A n \in 1..Len(FetchedResponse(<<<<>>, i>>).body) :
                  ~Contains(FrameText(<<>>), FetchedResponse(<<<<>>, i>>).body[n])

\* C11 witness: the include of /404 was answered with status 404 and the
\* finished output of the Esi class holds neither it nor "Not found".
C11_Witness ==
  /\ options.impl = "Esi"
  /\ options.onError = "default"
  /\ pc = "finalized"
  /\ <<<<>>, 1>> \in Started
  /\ FetchedResponse(<<<<>>, 1>>).status = 404
  /\ directives[<<<<>>, 1>>].errors = <<"FetchFailedHttp">>
  /\ FrameText(<<>>) = <<Text("M"), Text("X")>>

\* C12: in parseEsi the string a custom error handler returns decides what
\* happens to a failed directive: the empty string removes the element,
\* markup replaces the element with exactly that markup.
C12_CustomHandlerDecides ==
  (options.impl = "parseEsi" /\ options.onError \in {"remove", "replace"}) =>
    \A k \in Started :
      (directives[k].st = "done" /\ directives[k].errors # <<>>) =>
         IF options.onError = "remove"
         THEN directives[k].action = "remove" /\ directives[k].out = <<>>
         ELSE directives[k].action = "replace" /\ directives[k].out = <<ErrorMarkup>>

\* C12 witness: the handler returned markup for the include answered with
\* 404 and the finished output holds the markup in its place.
C12_Witness ==
  /\ options.impl = "parseEsi"
  /\ options.onError = "replace"
  /\ pc = "finalized"
  /\ <<<<>>, 1>> \in Started
  /\ directives[<<<<>>, 1>>].errors = <<"FetchFailedHttp">>
  /\ FrameText(<<>>) = <<ErrorMarkup, Text("M"), Text("X")>>

\* C13: in parseEsi the error handler is called, for an include answered
\* with a non-2xx status, with the failed response (its status and
\* statusText) and a request for the include URL, and for a fetch that
\* threw, with the error, a request for the include URL and no response.
C13_HandlerReceivesResponse ==
  options.impl = "parseEsi" =>
    \A k \in Started :
      (directives[k].st = "done" /\ FetchFailed(k)) =>
         /\ Head(directives[k].received).request.url = ResolvedUrl(k)
         /\ IF FetchedResponse(k) = NetworkError
            THEN /\ Head(directives[k].errors) = "FetchFailedNetwork"
                 /\ Head(directives[k].received).response = NoResponse
            ELSE /\ Head(directives[k].errors) = "FetchFailedHttp"
                 /\ Head(directives[k].received).response = FetchedResponse(k)
                 /\ Head(directives[k].received).response.status =
                      FetchedResponse(k).status
                 /\ Head(directives[k].received).response.statusText =
                      FetchedResponse(k).statusText

\* C13 witness: the handler was called with the 404 response of /404.
C13_Witness ==
  /\ options.impl = "parseEsi"
  /\ <<<<>>, 1>> \in Started
  /\ directives[<<<<>>, 1>>].st = "done"
  /\ directives[<<<<>>, 1>>].received # <<>>
  /\ Head(directives[<<<<>>, 1>>].received).response.status = 404
  /\ Head(directives[<<<<>>, 1>>].received).response.statusText = "Not Found"
  /\ Head(directives[<<<<>>, 1>>].received).request.url = Url(OriginA, <<"404">>)

\* The handler run of directive k ended without the content of an include
\* in place of the element: the directive failed.
Failing(k) ==
  /\ directives[k].st = "done"
  /\ SrcOf(k).kind # "none"
  /\ ~(directives[k].action = "replace" /\ directives[k].errors = <<>>)

\* C14: for every failing directive the error handler was called exactly
\* once.
C14_HandlerInvokedOnce ==
  \A k \in Started : Failing(k) => Len(directives[k].errors) = 1

\* The requests the engine handed to the fetch collaborator.
Outbound ==
  (IF requestWithCapability # NoRequest THEN {requestWithCapability} ELSE {})
    \cup {directives[k].sent : k \in {x \in Started : directives[x].fetches = 1}}

\* The entry with which the engine advertises itself.
EngineCapability == <<"cloudflare-workers=", "\"ESI/1.0\"">>

IsSuffix(t, seq) ==
  Len(t) <= Len(seq) /\ SubSeq(seq, Len(seq) - Len(t) + 1, Len(seq)) = t

\* C15: every request handed to the fetch collaborator, for the caller or
\* for an include at any depth, carries a Surrogate-Capability header with
\* the entry cloudflare-workers="ESI/1.0".
C15_EveryFetchAdvertises ==
  \A r \in Outbound :
    IsSuffix(EngineCapability, HeadersGet(r.headers, "Surrogate-Capability"))

\* The value the capability header must have after the engine's entry was
\* added to a request that carried the value existing.
WithEngineCapability(existing) ==
  IF existing = <<>> THEN EngineCapability
  ELSE existing \o <<",", " ">> \o EngineCapability

\* C16: the request the Esi class hands to the fetch collaborator carries
\* the engine's entry alone when the request it was made from had no
\* Surrogate-Capability value, and else the existing value, a comma and the
\* engine's entry.
C16_CapabilityConstruction ==
  options.impl = "Esi" =>
    /\ requestWithCapability # NoRequest =>
         HeadersGet(requestWithCapability.headers, "Surrogate-Capability") =
           WithEngineCapability(
             HeadersGet(context[Len(context)].headers, "Surrogate-Capability"))
    /\ \A k \in Started :
         directives[k].fetches = 1 =>
           HeadersGet(directives[k].sent.headers, "Surrogate-Capability") =
             WithEngineCapability(
               HeadersGet(directives[k].request.headers, "Surrogate-Capability"))

\* C16 witness: the incoming request advertised another surrogate and the
\* request handed to the fetch collaborator lists both.
C16_Witness ==
  /\ requestWithCapability # NoRequest
  /\ HeadersGet(context[1].headers, "Surrogate-Capability") =
       <<"varnish=", "\"ESI/1.0\"">>
  /\ HeadersGet(requestWithCapability.headers, "Surrogate-Capability") =
       <<"varnish=", "\"ESI/1.0\"", ",", " ", "cloudflare-workers=", "\"ESI/1.0\"">>

\* The request sent differs from the request it was made from in the
\* capability header only.
OnlyCapabilityAdded(sent, request) ==
  /\ sent.url = request.url
  /\ \A key \in RequestHeaderKeys \ {"surrogate-capability"} :
        sent.headers[key] = request.headers[key]

\* C17: the request the Esi class hands to the fetch collaborator has the
\* URL and every header other than Surrogate-Capability of the request it
\* was made from, and that request is left as it was: it is what the
\* transform keeps as its context.
C17_OnlyCapabilityAdded ==
  options.impl = "Esi" =>
    /\ requestWithCapability # NoRequest =>
         /\ OnlyCapabilityAdded(requestWithCapability, context[Len(context)])
         /\ <<>> \in DOMAIN frames => frames[<<>>].context = context
    /\ \A k \in Started :
         directives[k].fetches = 1 =>
           /\ OnlyCapabilityAdded(directives[k].sent, directives[k].request)
           /\ Append(k[1], k[2]) \in DOMAIN frames =>
                frames[Append(k[1], k[2])].context =
                  Append(frames[k[1]].context, directives[k].request)

\* C17 witness: a request with Authorization and User-Agent was fetched for
\* the caller and a same-origin include that inherited them was fetched.
C17_Witness ==
  /\ requestWithCapability # NoRequest
  /\ HeadersGet(requestWithCapability.headers, "Authorization") = <<"Bearer">>
  /\ HeadersGet(requestWithCapability.headers, "User-Agent") = <<"MyApp/1.0">>
  /\ HeadersGet(context[1].headers, "Surrogate-Capability") = <<>>
  /\ <<<<>>, 1>> \in Started
  /\ directives[<<<<>>, 1>>].fetches = 1
  /\ HeadersGet(directives[<<<<>>, 1>>].sent.headers, "Authorization") = <<"Bearer">>
  /\ HeadersGet(directives[<<<<>>, 1>>].sent.headers, "Surrogate-Capability") =
       EngineCapability

\* The response handed to the Esi class passes the body, control directive
\* and content type tests.
Eligible ==
  /\ response.hasBody
  /\ hasEsiSurrogateControl(response, options.surrogateControlHeader)
  /\ hasAllowedContentType(response, options.contentTypes)

\* The Surrogate-Capability value of the nearest-ancestor request.
IncomingCapability ==
  HeadersGet(context[Len(context)].headers, "Surrogate-Capability")

IncomingAddress == HeadersGet(context[Len(context)].headers, "CF-Connecting-IP")

\* The response was returned as it is and nothing was fetched for it.
Delegated == pc = "passthrough" /\ result = response /\ FetchCount = 0

\* The includes of the response are processed: a transform was set up, and
\* for the document <include H> M <include F> with every URL allowed both
\* includes are in the finished output.
Processed ==
  /\ pc # "passthrough"
  /\ <<>> \in DOMAIN frames
  /\ (/\ pc = "finalized"
      /\ response.body = SiblingBody
      /\ ~options.allowedUrlPatterns.set) =>
        FrameText(<<>>) = <<Text("H"), Text("M"), Text("F")>>

\* C18: with surrogateDelegation a boolean, an eligible response is
\* returned unprocessed iff delegation is enabled and the nearest-ancestor
\* request has a Surrogate-Capability value containing ESI/1.0; else
\* (disabled, no header, another token) its includes are processed.
C18_BooleanDelegation ==
  (/\ options.impl = "Esi"
   /\ options.surrogateDelegation.kind = "boolean"
   /\ pc # "start"
   /\ Eligible) =>
     IF options.surrogateDelegation.on /\ Contains(IncomingCapability, "\"ESI/1.0\"")
     THEN Delegated
     ELSE Processed

\* C18 witness: delegation is enabled, the request advertises ESI/1.0 and
\* the eligible response was returned unprocessed.
C18_Witness ==
  /\ options.surrogateDelegation = DelegationOn
  /\ Eligible
  /\ IncomingCapability = <<"varnish=", "\"ESI/1.0\"">>
  /\ pc = "passthrough"
  /\ result = response

\* C19: with surrogateDelegation a list of addresses, an eligible response
\* is returned unprocessed iff the request advertises ESI/1.0 and its
\* CF-Connecting-IP header is present and is one of the listed addresses;
\* with a missing or unlisted address its includes are processed.
C19_AddressListDelegation ==
  (/\ options.impl = "Esi"
   /\ options.surrogateDelegation.kind = "array"
   /\ pc # "start"
   /\ Eligible) =>
     IF /\ Contains(IncomingCapability, "\"ESI/1.0\"")
        /\ IncomingAddress # <<>>
        /\ Contains(options.surrogateDelegation.ips, IncomingAddress)
     THEN Delegated
     ELSE Processed

\* C19 witness: the request advertises ESI/1.0 from an address that is not
\* listed and the includes of the response were processed.
C19_Witness ==
  /\ options.surrogateDelegation.kind = "array"
  /\ Eligible
  /\ IncomingCapability = <<"varnish=", "\"ESI/1.0\"">>
  /\ IncomingAddress = <<"192.168.1.2">>
  /\ pc = "finalized"
  /\ FetchCount = 2

\* C20: a directive without src attribute is never fetched, and once its
\* handler has run the element is removed: nothing stands in its place.
C20_MissingSrcRemoved ==
  \A k \in Started :
    SrcOf(k).kind = "none" =>
      /\ directives[k].fetches = 0
      /\ directives[k].st = "done" =>
           /\ directives[k].action = "remove"
           /\ directives[k].out = <<>>

\* The fetch of directive k was issued and answered with a status in
\* 200..299, and the response was not handed to a nested transform.
FetchedPlain(k) ==
  /\ directives[k].st = "done"
  /\ directives[k].fetches = 1
  /\ FetchedResponse(k) # NetworkError
  /\ FetchedResponse(k).status >= 200
  /\ FetchedResponse(k).status <= 299
  /\ Append(k[1], k[2]) \notin DOMAIN frames

\* C21: a directive whose fetch succeeded and whose response is not
\* processed recursively is replaced by exactly the body of the fetched
\* response, without an error; the markup of a root directive is not in the
\* finished output, unless the fetched text itself holds such markup.
C21_FetchedBodyReplaces ==
  /\ \A k \in Started :
       FetchedPlain(k) =>
         /\ directives[k].action = "replace"
         /\ directives[k].out = FetchedResponse(k).body
         /\ directives[k].errors = <<>>
  /\ pc = "finalized" =>
       \A i \in 1..Len(frames[<<>>].items) :
          (<<<<>>, i>> \in Started /\ FetchedPlain(<<<<>>, i>>)) =>
             \/ ~Contains(FrameText(<<>>), frames[<<>>].items[i])
             \/ Contains(FetchedResponse(<<<<>>, i>>).body, frames[<<>>].items[i])

\* C21 witness: the first include of <include H> M <include F> was fetched
\* with status 200 and the finished output has the text H in its place.
C21_Witness ==
  /\ pc = "finalized"
  /\ response.body = SiblingBody
  /\ <<<<>>, 1>> \in Started
  /\ FetchedPlain(<<<<>>, 1>>)
  /\ FetchedResponse(<<<<>>, 1>>).status = 200
  /\ directives[<<<<>>, 1>>].out = <<Text("H")>>
  /\ FrameText(<<>>)[1] = Text("H")

\* The document of the root response holds no include element.
NoIncludes == \A n \in 1..Len(response.body) : ~IsInclude(response.body[n])

\* C22: a processed document without include elements comes out as it
\* went in, item for item, and nothing is fetched for it.
C22_NoIncludesIdentity ==
  (pc \in {"streaming", "finalized"} /\ NoIncludes) =>
     /\ FetchCount = 0
     /\ pc = "finalized" => FrameText(<<>>) = response.body

\* The document fetched for directive k lies beyond the depth limit of the
\* Esi class: its nesting depth, the number of requests on the chain the
\* fetch was issued under, is greater than maxDepth.
OverLimit(k) ==
  /\ directives[k].fetches = 1
  /\ FetchedResponse(k) # NetworkError
  /\ FetchedResponse(k).status >= 200
  /\ FetchedResponse(k).status <= 299
  /\ Len(directives[k].chain) > options.maxDepth

DelegatingValues ==
  { <<"content", "=", "\"ESI/1.0\"">>,
    <<"no-store", ",", " ", "CONTENT", " ", "=", " ", "\"esi/1.0\"">> }

\* C25: a response whose configured control header is absent or holds no
\* content="ESI/1.0" directive (another version, no quotes, no content=)
\* is returned as it is and nothing is fetched for it; a response whose
\* header holds the directive is processed when it has a body and an
\* allowed content type and processing is not delegated downstream.
C25_ControlDirectiveGate ==
  pc # "start" =>
    LET value == HeadersGet(response.headers, ControlHeaderName) IN
      /\ value \notin DelegatingValues =>
           /\ pc = "passthrough"
           /\ result = response
           /\ FetchCount = 0
      /\ (/\ value \in DelegatingValues
          /\ response.hasBody
          /\ hasAllowedContentType(response, options.contentTypes)
          /\ ~shouldDelegateToSurrogate(context[Len(context)],
                                        options.surrogateDelegation)) =>
           /\ pc # "passthrough"
           /\ <<>> \in DOMAIN frames

\* C25 witness: the directive stands, in upper case and after no-store, in
\* the custom control header the Esi class was configured with, and the
\* response was processed to its end.
C25_Witness ==
  /\ options.impl = "Esi"
  /\ options.surrogateControlHeader = "Custom-Surrogate-Control"
  /\ HeadersGet(response.headers, "Custom-Surrogate-Control") =
       <<"no-store", ",", " ", "CONTENT", " ", "=", " ", "\"esi/1.0\"">>
  /\ HeadersGet(response.headers, "Surrogate-Control") = <<>>
  /\ pc = "finalized"
  /\ FetchCount = 2

\* The Content-Type values whose media type is text/html: bare, in upper
\* case with a parameter, and with white space before the semicolon.
HtmlValues ==
  { <<"text/html">>,
    <<"TEXT/HTML", ";", " ", "charset=utf-8">>,
    <<"text/html", " ", ";", "charset=utf-8">> }

\* The media type of the value is on the configured list: both lists
\* explored name text/html (one of them in upper case), one names
\* application/xml too.
EligibleType(value) ==
  \/ value \in HtmlValues
  \/ /\ value = <<"application/xml">>
     /\ Contains(options.contentTypes, <<"application/xml">>)

\* C26: a response without Content-Type header, or with a media type that
\* is not on the list (text/plain, text/html+x, application/xml when the
\* list does not name it), is returned as it is and nothing is fetched for
\* it; a response whose media type is on the list, whatever its letter
\* case, its parameters and the white space around it, is processed when
\* it has a body and the control directive and processing is not delegated.
C26_ContentTypeGate ==
  pc # "start" =>
    LET value == HeadersGet(response.headers, "Content-Type") IN
      /\ ~EligibleType(value) =>
           /\ pc = "passthrough"
           /\ result = response
           /\ FetchCount = 0
      /\ (/\ EligibleType(value)
          /\ response.hasBody
          /\ HeadersGet(response.headers, ControlHeaderName) \in DelegatingValues
          /\ ~shouldDelegateToSurrogate(context[Len(context)],
                                        options.surrogateDelegation)) =>
           /\ pc # "passthrough"
           /\ <<>> \in DOMAIN frames

\* C26 witness: a response of type "text/html ;charset=utf-8" was processed
\* to its end under a list that names TEXT/HTML in upper case.
C26_Witness ==
  /\ options.contentTypes = <<<<"application/xml">>, <<"TEXT/HTML">>>>
  /\ HeadersGet(response.headers, "Content-Type") =
       <<"text/html", " ", ";", "charset=utf-8">>
  /\ pc = "finalized"
  /\ FetchCount = 2

\* The nesting level of the document fetched for directive k: 1 for an
\* include of the root document.
Level(k) == Len(k[1]) + 1

\* The levels for which a fetch was issued.
LevelsFetched == { Level(k) : k \in { j \in Started : directives[j].fetches = 1 } }

\* C27: the depth of a document is the number of fetches above it, 0 for
\* the root document whichever way the engine is entered; a document is
\* fetched only for a level up to maxDepth, and for the chain
\* /1 -> /2 -> /3 with every URL allowed the levels fetched in a finished
\* assembly are exactly 1..min(3, maxDepth).
C27_DepthConvention ==
  /\ \A p \in DOMAIN frames : frames[p].depth = Len(p)
  /\ \A n \in LevelsFetched : n <= options.maxDepth
  /\ (/\ pc = "finalized"
      /\ response.body = ChainBody
      /\ ~options.allowedUrlPatterns.set) =>
        LevelsFetched = 1..Min(3, options.maxDepth)

\* The fetch of directive k has settled with a status in 200..299.
FetchSucceeded(k) ==
  /\ directives[k].fetches = 1
  /\ directives[k].st \in {"reading", "done"}
  /\ FetchedResponse(k) # NetworkError
  /\ FetchedResponse(k).status >= 200
  /\ FetchedResponse(k).status <= 299

\* The response carries the control directive and an eligible content type.
CarriesBoth(resp) ==
  /\ HeadersGet(resp.headers, ControlHeaderName) \in DelegatingValues
  /\ EligibleType(HeadersGet(resp.headers, "Content-Type"))

\* A handler has run on a directive of the document fetched for k.
DirectiveStartedIn(k) == \E j \in Started : j[1] = Append(k[1], k[2])

\* C28: a successfully fetched include response is handed to a nested
\* transform iff it carries the control directive and an eligible content
\* type; otherwise no handler runs on a directive of its body, and the
\* element is replaced by the body as it came.
C28_RecursionGate ==
  \A k \in Started :
    FetchSucceeded(k) =>
      IF CarriesBoth(FetchedResponse(k))
      THEN Append(k[1], k[2]) \in DOMAIN frames
      ELSE /\ Append(k[1], k[2]) \notin DOMAIN frames
           /\ ~DirectiveStartedIn(k)
           /\ directives[k].st = "done"
           /\ directives[k].action = "replace"
           /\ directives[k].out = FetchedResponse(k).body

\* The fetch of directive k has settled with a status outside 200..299.
FetchAnsweredNotOk(k) ==
  /\ directives[k].fetches = 1
  /\ directives[k].st \in {"reading", "done"}
  /\ FetchedResponse(k) # NetworkError
  /\ \/ FetchedResponse(k).status < 200
     \/ FetchedResponse(k).status > 299

\* C29: an include response with a status outside 200..299 goes to the
\* error handler as a failed fetch and is not resolved recursively: no
\* transform is set up on it and no handler runs, and so nothing is
\* fetched, for a directive of its body, also when the response carries
\* the control directive and an eligible content type.
C29_FailedResponseNotResolved ==
  \A k \in Started :
    FetchAnsweredNotOk(k) =>
      /\ directives[k].st = "done"
      /\ directives[k].errors # <<>>
      /\ directives[k].errors[1] = "FetchFailedHttp"
      /\ Append(k[1], k[2]) \notin DOMAIN frames
      /\ ~DirectiveStartedIn(k)

\* The request of the document the directive k stands in.
ParentRequest(k) == frames[k[1]].context[Len(frames[k[1]].context)]

HandlerCalled(k) == directives[k].st = "done" /\ directives[k].errors # <<>>

\* C31: with an error handler that throws, a directive for which the
\* handler was called is neither replaced nor removed: the handler was
\* called once for it, its handler run rejected and the transform of its
\* document is aborted; an assembly in which that happened is never
\* finished.
C31_ThrowingHandlerIsFatal ==
  options.onError = "throws" =>
    /\ \A k \in Started :
         HandlerCalled(k) =>
           /\ Len(directives[k].errors) = 1
           /\ directives[k].action = "threw"
           /\ frames[k[1]].status = "aborted"
    /\ pc = "finalized" => \A k \in Started : ~HandlerCalled(k)

LoopBody == <<Include(RelSrc(<<"loop">>))>>

\* C32: for a root document that includes /loop, a fragment that includes
\* itself, the number of fetches never exceeds maxDepth, and a finished
\* assembly with every URL allowed has fetched /loop exactly maxDepth
\* times: nothing but the depth counter cuts the chain.
C32_CycleCutByDepth ==
  response.body = LoopBody =>
    /\ FetchCount <= options.maxDepth
    /\ \A k \in Started :
         directives[k].fetches = 1 => directives[k].sent.url = Url(OriginA, <<"loop">>)
    /\ (pc = "finalized" /\ ~options.allowedUrlPatterns.set) =>
         FetchCount = options.maxDepth

FragBody == <<Include(AbsSrc(OriginB, <<"frag">>))>>

\* The URL of the request that fetched the document the directive k stands
\* in: the URL of the root document, or the URL of the include request of
\* the directive one level up.
NearestAncestorUrl(k) ==
  IF k[1] = <<>> THEN RootUrl
  ELSE directives[<<SubSeq(k[1], 1, Len(k[1]) - 1), k[1][Len(k[1])]>>].request.url

\* C33: the request made for a directive with a relative src has the
\* origin of the request that fetched the document the directive stands
\* in, and the path of the src.  The root document at example.com includes
\* https://untrusted.com/frag, which includes /x: the inner include is
\* fetched from untrusted.com, and a finished assembly that resolved both
\* levels reads Y X.
C33_RelativeToNearestAncestor ==
  /\ \A k \in Started :
       (SrcOf(k).kind = "rel" /\ directives[k].request # NoRequest) =>
          directives[k].request.url = Url(NearestAncestorUrl(k).origin, SrcOf(k).path)
  /\ (/\ pc = "finalized"
      /\ response.body = FragBody
      /\ ~options.allowedUrlPatterns.set
      /\ options.maxDepth >= 2) =>
        FrameText(<<>>) = <<Text("Y"), Text("X")>>

\* C33 witness: the include of /x inside the fragment of untrusted.com was
\* fetched from https://untrusted.com/x and its text is in the output.
C33_Witness ==
  /\ pc = "finalized"
  /\ response.body = FragBody
  /\ <<<<1>>, 2>> \in Started
  /\ directives[<<<<1>>, 2>>].fetches = 1
  /\ directives[<<<<1>>, 2>>].sent.url = Url(OriginB, <<"x">>)
  /\ FrameText(<<>>) = <<Text("Y"), Text("X")>>

\* Processing is delegated to the surrogate that sent the request.
DelegatedDownstream ==
  shouldDelegateToSurrogate(context[Len(context)], options.surrogateDelegation)

\* PassThrough: the response comes back as it went in; no transform was
\* set up, no handler ran and nothing was fetched for a directive.
PassThroughState ==
  /\ result = response
  /\ frames = <<>>
  /\ directives = <<>>
  /\ completed = <<>>
  /\ ~Eligible \/ DelegatedDownstream

\* The headers of the returned response have been rewritten: it is not to
\* be cached and the control header is gone.
HeadersRewritten ==
  /\ HeadersGet(result.headers, "Cache-Control") = <<"private,", " ", "max-age=0">>
  /\ HeadersGet(result.headers, ControlHeaderName) = <<>>
  /\ HeadersGet(result.headers, "ETag") = <<>>

\* One step of the state machine of a document of the Esi class.
DocumentStep ==
  /\ pc \in {"passthrough", "finalized", "failed"} =>
       /\ pc' = pc
       /\ result' = result
       /\ frames' = frames
       /\ directives' = directives
  /\ (pc' = "passthrough" /\ pc # "passthrough") => pc = "start"
  /\ (pc' = "streaming" /\ pc # "streaming") => (pc = "start" /\ HeadersRewritten')
  /\ (pc' = "finalized" /\ pc # "finalized") => pc = "streaming"
  /\ pc = "streaming" => result' = result

DelegationEnabled ==
  options.surrogateDelegation.kind = "array" \/ options.surrogateDelegation.on

\* C35: in the Esi class with delegation enabled, the request at the end
\* of the chain of a nested transform carries no capability entry of the
\* engine although the request sent did, and a successfully fetched include
\* response with the control directive and an eligible content type, at a
\* nesting depth within the limit, is handed to a nested transform: it is
\* never returned unprocessed as delegated.
C35_OwnCapabilityNeverDelegates ==
  (options.impl = "Esi" /\ DelegationEnabled) =>
    \A k \in Started :
      /\ directives[k].fetches = 1 =>
           /\ Contains(directives[k].sent.headers["surrogate-capability"],
                       "cloudflare-workers=")
           /\ ~shouldDelegateToSurrogate(directives[k].request,
                                         options.surrogateDelegation)
      /\ (/\ FetchSucceeded(k)
          /\ CarriesBoth(FetchedResponse(k))
          /\ Len(directives[k].chain) <= options.maxDepth) =>
            /\ Append(k[1], k[2]) \in DOMAIN frames
            /\ ~Contains(ParentRequest(<<Append(k[1], k[2]), 1>>)
                           .headers["surrogate-capability"], "cloudflare-workers=")

\* C35 witness: delegation is enabled and the incoming request advertises
\* nothing; the chain was assembled through two nested transforms.
C35_Witness ==
  /\ options.impl = "Esi"
  /\ options.surrogateDelegation = DelegationOn
  /\ IncomingCapability = <<>>
  /\ pc = "finalized"
  /\ response.body = ChainBody
  /\ <<1, 2>> \in DOMAIN frames
  /\ FrameText(<<>>) = <<Text("L1"), Text("L2"), Text("L3")>>

\* The number of elements of seq that equal item.
RECURSIVE Count(_, _)
Count(seq, item) ==
  IF seq = <<>> THEN 0
  ELSE (IF Head(seq) = item THEN 1 ELSE 0) + Count(Tail(seq), item)

\* C36: in the Esi class every request handed to the fetch collaborator,
\* for the caller or for an include at any depth, holds the entry
\* cloudflare-workers="ESI/1.0" exactly once in its Surrogate-Capability
\* header, and the include request it was made from holds none.
C36_CapabilityDoesNotAccumulate ==
  options.impl = "Esi" =>
    /\ requestWithCapability # NoRequest =>
         Count(requestWithCapability.headers["surrogate-capability"],
               "cloudflare-workers=") = 1
    /\ \A k \in Started :
         directives[k].fetches = 1 =>
           /\ Count(directives[k].sent.headers["surrogate-capability"],
                    "cloudflare-workers=") = 1
           /\ Count(directives[k].request.headers["surrogate-capability"],
                    "cloudflare-workers=") = 0

\* C36 witness: the incoming request advertises varnish; the include of /3,
\* two fetched documents down, was sent with the entry of varnish followed
\* by one entry of the engine.
C36_Witness ==
  /\ options.impl = "Esi"
  /\ IncomingCapability = <<"varnish=", "\"ESI/1.0\"">>
  /\ <<<<1, 2>>, 2>> \in Started
  /\ directives[<<<<1, 2>>, 2>>].fetches = 1
  /\ directives[<<<<1, 2>>, 2>>].sent.url = Url(OriginA, <<"3">>)
  /\ directives[<<<<1, 2>>, 2>>].sent.headers["surrogate-capability"] =
       <<"varnish=", "\"ESI/1.0\"", ",", " ", "cloudflare-workers=", "\"ESI/1.0\"">>

\* C37: no directive occurrence has more than one fetch issued for it, the
\* fetch of an occurrence settles at most once, also when it failed, and
\* the number of fetches issued and of fetches settled never exceeds the
\* number of occurrences a handler has run on.
C37_OneFetchPerDirective ==
  /\ \A k \in Started :
       /\ directives[k].fetches <= 1
       /\ Count(completed, k) <= directives[k].fetches
  /\ \A n \in 1..Len(completed) : completed[n] \in Started
  /\ Len(completed) <= FetchCount
  /\ FetchCount <= Cardinality(Started)

\* C37 witness: a finished assembly in which the fetch of /err failed on
\* the network: it was issued once and settled once, and its sibling was
\* fetched once.
C37_Witness ==
  /\ pc = "finalized"
  /\ <<<<>>, 1>> \in Started
  /\ <<<<>>, 2>> \in Started
  /\ directives[<<<<>>, 1>>].sent.url = Url(OriginA, <<"err">>)
  /\ directives[<<<<>>, 1>>].errors = <<"FetchFailedNetwork">>
  /\ directives[<<<<>>, 1>>].fetches = 1
  /\ Count(completed, <<<<>>, 1>>) = 1
  /\ FetchCount = 2

\* C38: Esi.parseResponse called with an empty context fails, whatever the
\* response is, eligible or not: no response is returned, no transform is
\* set up, no handler runs and nothing is fetched.
C38_ContextRequired ==
  (options.impl = "Esi" /\ context = <<>> /\ pc # "start") =>
    /\ pc = "failed"
    /\ result = NoResponse
    /\ frames = <<>>
    /\ directives = <<>>
    /\ completed = <<>>
    /\ requestWithCapability = NoRequest

\* C38 witness: the call without context has failed for a response that
\* has no body and would otherwise have been returned as it is.
C38_Witness ==
  /\ context = <<>>
  /\ pc = "failed"
  /\ ~response.hasBody
  /\ result = NoResponse

\* The assembly in which every fetch settles, and every nested document is
\* assembled, before the handler of the next element starts: text is the
\* text that replaces the items i.. of the document f, urls the URLs
\* fetched for them.  A failed response is not descended into.
RECURSIVE SequentialItems(_, _)
RECURSIVE SequentialDirective(_, _)
SequentialItems(f, i) ==
  IF i > Len(f.items) THEN [text |-> <<>>, urls |-> {}]
  ELSE LET here == IF Selected(f.items[i]) THEN SequentialDirective(f, f.items[i])
                   ELSE [text |-> <<f.items[i]>>, urls |-> {}]
           rest == SequentialItems(f, i + 1)
       IN [text |-> here.text \o rest.text, urls |-> here.urls \cup rest.urls]

SequentialDirective(f, item) ==
  LET esi == options.impl = "Esi"
      d == IF esi THEN onEsiElement(f, item) ELSE element(f, item)
      resp == OriginFetch(d.sent.url)
      failed == resp = NetworkError \/ ~Ok(resp)
      chain == Append(d.chain, d.request)
      nested == IF esi THEN ParseResponseDecision(resp, chain) = "transform"
                ELSE shouldRecurse(resp)
      child == IF esi
               THEN Frame(d.request.url, Len(chain) - 1, chain, ResponseToParse(resp.body))
               ELSE Frame(d.request.url, f.depth + 1, <<>>, resp.body)
      inner == SequentialItems(child, 1)
      ended == IF esi THEN EsiOnError(d, "FetchFailed")
               ELSE handleError(d, "FetchFailed", NoResponse, FALSE)
  IN IF d.st = "done" THEN [text |-> d.out, urls |-> {}]
     ELSE IF failed THEN [text |-> ended.out, urls |-> {d.sent.url}]
     ELSE IF nested THEN [text |-> inner.text, urls |-> {d.sent.url} \cup inner.urls]
     ELSE [text |-> resp.body, urls |-> {d.sent.url}]

\* The transform of the root document, as a function of the inputs.
RootFrame ==
  IF options.impl = "Esi"
  THEN Frame(context[Len(context)].url, Len(context) - 1, context,
             ResponseToParse(response.body))
  ELSE Frame(response.url, 0, <<>>, response.body)

\* The URLs handed to the fetch collaborator for directives.
FetchedUrls == { directives[k].sent.url : k \in { j \in Started : directives[j].fetches = 1 } }

====
